---------------------------- MODULE Spec2Model ----------------------------
(***************************************************************************)
(* A model of husky's reactive propagation engine: base trees that         *)
(* broadcast events, stage workers (spawn_watcher) that translate them,    *)
(* materializations (spawn_listener) that mirror a view, and the           *)
(* Synchronizer that readers wait on.                                      *)
(*                                                                         *)
(* One set of variables serves several specifications; `topo` names what   *)
(* was constructed:                                                        *)
(*   "map" / "filter"  V = A.map(f) / A.filter(p),   S = V.store(name)     *)
(*   "chain" / "zip"   V = A.chain(B) / A.zip(B),    S = V.store(name)     *)
(*   "reducer"         R = A.reducer(r),             S = R.store(name)     *)
(*   "reduce"          R = A.reduce(r),              S = R.store(name)     *)
(*   "index_loaded"    MI = A.index(f).load()                              *)
(*   "index_stored"    MI = A.index(f).store(name)                         *)
(* Spec runs the first four, SpecPull reads a chain or a zip that is not   *)
(* materialized, SpecReducer and SpecReducerSeq write through R, SpecIndex *)
(* runs the last two.                                                      *)
(*                                                                         *)
(* A writing or waiting thread takes one access to shared memory per step. *)
(* A worker receives an event and runs its callback in one step, then      *)
(* takes received(), the wake-up, outgoing() and each broadcast as steps   *)
(* of their own.  Keys and values are carried typed: the byte codec of     *)
(* primitive keys and values (rkyv or bincode) and sled itself are         *)
(* external collaborators; the codec of StableVec is the repository's and  *)
(* is modelled.  thread::park is modelled with its token and without       *)
(* spurious wake-ups, which the platform does not guarantee.               *)
(***************************************************************************)
EXTENDS Integers, Sequences, FiniteSets, TLC

\* ------------------------------------------------------------ bounds
NumKeys == 1
MaxVal == 2
MaxWrites == 2
\* The keys of the trees that views are read from directly.
NumPullKeys == 2
\* The source keys of the indexed tree, and the write calls made to it.
NumIdxKeys == 2
MaxIdxWrites == 3
\* The counters are AtomicU32 and wrap modulo 2^32; the model wraps them at a
\* scaled-down modulus that the bounded runs stay below.
CounterMod == 16
\* The items handed to one StableVec, and the most one extend hands over.
MaxItems == 4
MaxExtend == 2
\* The writes to a tree whose bus has several readers.
MaxBusWrites == 3
\* The calls of rebuild() on one materialization.
MaxRebuilds == 2
\* The keys of a Loaded map that is asked for its neighbours.
NumLoadedKeys == 3

\* ------------------------------------------------- program constants
\* Bus::new(128): the capacity of every event bus.
BusCap == 128

Keys == 1..NumKeys
Vals == 1..MaxVal
PullKeys == 1..NumPullKeys
IdxKeys == 1..NumIdxKeys
\* The indexed keys, the range of the indexer below.
IKeys == {0, 1}
Options == {<<>>} \cup {<<v>> : v \in Vals}

\* ------------------------------------------------------------ Option
None == <<>>
Some(v) == <<v>>
IsSome(o) == o # <<>>
Unwrap(o) == o[1]
\* Option::or of the standard library, the reference Chain is specified by.
OptionOr(a, b) == IF IsSome(a) THEN a ELSE b

\* ------------------------------------------------------------- Event
Insert(k, v) == [type |-> "Insert", key |-> k, value |-> v]
Remove(k) == [type |-> "Remove", key |-> k]

\* ------------------------------------------- the closures of the tests
\* A stage that passes the value on as it is.
unchanged(k, v) == v
\* tree.map(|_, v| v * v)
mapper(k, v) == v * v
\* tree.filter(|_, v| v % 2 == 0)
filter(k, v) == v % 2 = 0
\* tree.index(|k, v| vec![(k + v) % 2]): an indexer under which source keys
\* share an indexed key and an overwrite moves a key to another indexed key.
indexer(k, v) == <<(k + v) % 2>>
\* What a plain insert leaves: the new value, whatever the old one was.
overwrite(old, m) == m
\* tree.reduce(|a, b| a.unwrap_or(0) + b)
reducer(old, m) == (IF old = <<>> THEN 0 ELSE old[1]) + m

\* --------------------------------------------------------- StableVec
\* vec: the items; used: the BitVec of occupied slots.  Positions count from
\* 0 as in the source; the sequences of the model count from 1.
StableVec_new == [vec |-> <<>>, used |-> <<>>]

\* self.used.iter().position(|x| !x): 0 stands for None, i for Some(i - 1).
FirstFree(used) ==
    IF \E i \in 1..Len(used) : ~used[i]
    THEN CHOOSE i \in 1..Len(used) : ~used[i] /\ \A j \in 1..(i - 1) : used[j]
    ELSE 0

\* push(item): the vector after it, the position returned, and whether
\* self.vec[index] = item panicked because index is not below self.vec.len().
StableVec_push(sv, item) ==
    LET free == FirstFree(sv.used)
    IN  IF free = 0
        THEN [sv |-> [vec |-> Append(sv.vec, item), used |-> Append(sv.used, TRUE)],
              position |-> Len(sv.vec), panic |-> FALSE]
        ELSE IF free > Len(sv.vec)
        THEN [sv |-> sv, position |-> free - 1, panic |-> TRUE]
        ELSE [sv |-> [vec |-> [sv.vec EXCEPT ![free] = item],
                      used |-> [sv.used EXCEPT ![free] = TRUE]],
              position |-> free - 1, panic |-> FALSE]

\* remove(index): self.used.set(index, false)
StableVec_remove(sv, index) == [sv EXCEPT !.used[index + 1] = FALSE]

\* The vacant positions of `used`, lowest first: used.iter().enumerate()
\* .filter_map(|(i, x)| if x { None } else { Some(i) }).
RECURSIVE FreeFrom(_, _)
FreeFrom(used, i) ==
    IF i > Len(used) THEN <<>>
    ELSE (IF used[i] THEN <<>> ELSE <<i - 1>>) \o FreeFrom(used, i + 1)

\* Vec::insert(idx, item): the items from idx on move one place up.
Vec_insert(vec, idx, item) ==
    SubSeq(vec, 1, idx) \o <<item>> \o SubSeq(vec, idx + 1, Len(vec))

\* extend's first loop: one item per vacant position, while items remain.
\* self.vec.insert(idx, item) panics when idx is above self.vec.len().
RECURSIVE ExtendFree(_, _, _, _)
ExtendFree(sv, free, items, indexes) ==
    IF free = <<>> \/ items = <<>>
    THEN [sv |-> sv, items |-> items, indexes |-> indexes, panic |-> FALSE]
    ELSE LET idx == Head(free)
             used == [sv.used EXCEPT ![idx + 1] = TRUE]
         IN  IF idx > Len(sv.vec)
             THEN [sv |-> [vec |-> sv.vec, used |-> used], items |-> items,
                   indexes |-> indexes, panic |-> TRUE]
             ELSE ExtendFree([vec |-> Vec_insert(sv.vec, idx, Head(items)),
                              used |-> used],
                             Tail(free), Tail(items), Append(indexes, idx))

\* extend's second loop: the items left over are pushed at self.vec.len().
RECURSIVE ExtendPush(_, _, _)
ExtendPush(sv, items, indexes) ==
    IF items = <<>> THEN [sv |-> sv, indexes |-> indexes]
    ELSE ExtendPush([vec |-> Append(sv.vec, Head(items)),
                     used |-> Append(sv.used, TRUE)],
                    Tail(items), Append(indexes, Len(sv.vec)))

\* extend(iter): the vector after it, the positions returned and whether it
\* panicked.
StableVec_extend(sv, items) ==
    LET a == ExtendFree(sv, FreeFrom(sv.used, 1), items, <<>>)
        b == ExtendPush(a.sv, a.items, a.indexes)
    IN  IF a.panic THEN [sv |-> a.sv, indexes |-> a.indexes, panic |-> TRUE]
        ELSE [sv |-> b.sv, indexes |-> b.indexes, panic |-> FALSE]

\* into_vec(): the items of the occupied slots, in position order.
RECURSIVE IntoVecFrom(_, _)
IntoVecFrom(sv, i) ==
    IF i > Len(sv.vec) THEN <<>>
    ELSE (IF sv.used[i] THEN <<sv.vec[i]>> ELSE <<>>) \o IntoVecFrom(sv, i + 1)
StableVec_into_vec(sv) == IntoVecFrom(sv, 1)

StableVec_len(sv) == Cardinality({i \in 1..Len(sv.used) : sv.used[i]})
StableVec_is_empty(sv) == StableVec_len(sv) = 0

\* BitVec::to_bytes: eight bits to a byte, the first bit the high-order one,
\* the last byte filled up with false.
Pow2(n) == 2^n
RECURSIVE ByteFrom(_, _, _)
ByteFrom(bits, first, b) ==
    IF b > 7 THEN 0
    ELSE (IF first + b <= Len(bits) /\ bits[first + b] THEN Pow2(7 - b) ELSE 0)
         + ByteFrom(bits, first, b + 1)
BitVec_to_bytes(bits) ==
    [j \in 1..((Len(bits) + 7) \div 8) |-> ByteFrom(bits, 8 * (j - 1) + 1, 0)]
\* BitVec::from_bytes: every byte becomes eight bits.
BitVec_from_bytes(bytes) ==
    [i \in 1..(8 * Len(bytes)) |->
        (bytes[((i - 1) \div 8) + 1] \div Pow2(7 - ((i - 1) % 8))) % 2 = 1]

\* Serial for StableVec: the items, then the bytes of `used`.  (The codec of
\* the items themselves is the primitive one.)
StableVec_serialize(sv) == [items |-> sv.vec, free |-> BitVec_to_bytes(sv.used)]
StableVec_deserialize(bytes) ==
    [vec |-> bytes.items, used |-> BitVec_from_bytes(bytes.free)]

VARIABLES
    topo,       \* which pipeline was constructed
    store,      \* store[t][k]: the sled tree of base tree t
    inner,      \* inner[k]: the inner store of the Material S
    SYNCS,      \* the process-global registry of synchronizers
    source,     \* source[s]: Synchronizer.source, a Vec of synchronizers
    received,   \* received[s]: Synchronizer.received
    outgoing,   \* outgoing[s]: Synchronizer.outgoing
    waiting,    \* waiting[s]: Synchronizer.waiting, the parked threads
    token,      \* token[t]: the park token of thread t
    bus,        \* bus[r]: the events broadcast to reader r and not yet received
    wk,         \* wk[w]: where worker w is in its loop, and the events it holds;
                \* for a bus reader, the events it has received so far
    thr,        \* thr[t]: where reading thread t is; thr["g"] also notes the
                \* calls of rebuild() and the write count at the last one
    wr,         \* wr[w]: where writing thread w is, and its last call
    nwrites,    \* the number of write calls made so far
    hist,       \* hist[k]: the calls made through the reducer for key k, in
                \* call order (kept for the statements, read by no action);
                \* hist[1] is the ledger of the caller of a lone StableVec
    fwd,        \* fwd[ik]: MaterialIndex.fwd, indexed key -> StableVec of source keys
    bwd         \* bwd[k]: MaterialIndex.bwd, source key -> StableVec of (ik, position)

vars == <<topo, store, inner, SYNCS, source, received, outgoing, waiting,
          token, bus, wk, thr, wr, nwrites, hist, fwd, bwd>>

Trees == {"A", "B"}
\* A, B: the base trees; V: the stage; S: the Material; I: S's inner tree;
\* FWD, BWD: the trees a stored index keeps fwd and bwd in.
\* W: a second stage, built on V.
Syncs == {"A", "B", "V", "W", "S", "I", "FWD", "BWD"}
\* wa, wb: the stage's workers on A's and B's bus (wb: the second stage's
\* worker on V's bus when there are two stages); ls: the Material's listener;
\* u1, u2, u3: readers the program got from a.watch() (u1, u2) and V.watch() (u3).
Readers == {"u1", "u2", "u3"}
Workers == {"wa", "wb", "ls"} \cup Readers
\* r: a thread reading the materialization; g: a thread calling wait_all().
Threads == {"r", "g"}
\* The threads that write; the pipelines are written to by w1 alone.
Writers == {"w1", "w2"}

TwoSided == {"chain", "zip"}
\* The write-side stages: they own no bus and no synchronizer, watch() and
\* sync() are delegated to the tree they write to.
WriteSide == {"reducer", "reduce"}
\* The materialized indexes: V stands for MI, whose worker is wa.
IndexTopos == {"index_loaded", "index_stored"}
\* The pipelines under construction: "tree" has the base trees alone, the
\* others a stage that nothing has subscribed to yet, so no bus is built.
ColdTopos == {"tree", "cold_map", "cold_filter", "cold_chain", "cold_mapfilter"}
\* V = a.map(f).filter(p) is the pipeline "mapfilter": W is the filter.
UsedTrees == IF topo \in TwoSided \cup {"tree", "cold_chain"} THEN {"A", "B"} ELSE {"A"}
\* "pipe": a.pipe(b); the listener of the pipe is wa, which acknowledges on
\* b's synchronizer, and the program holds a reader u1 of a's bus that it
\* never reads, so bus["u1"] is what a has broadcast since.
\* A tree (and a map stage V on it) whose readers are created while it is
\* written to; in "bus_full" one reader exists from the start and the tree is
\* written to until its bus is full.
BusTopos == {"bus", "bus_full"}
\* The bus each reader reads.
ReadsFrom(r) == IF r = "u3" THEN "V" ELSE "A"
\* The writes one thread may make.
WriteBound ==
    CASE topo \in IndexTopos -> MaxIdxWrites
      [] topo = "bus" -> MaxBusWrites
      [] topo = "bus_full" -> BusCap + 1
      [] OTHER -> MaxWrites

\* The readers attached to the bus of `src` once S = V.store(name) exists:
\* Material::new calls V.watch(), whose builder calls a.watch() (and b.watch()).
Subs(src) ==
    CASE topo \in BusTopos ->
            {r \in Readers \cup {"wa"} : wk[r].pc # "none" /\ ReadsFrom(r) = src}
      [] topo \in ColdTopos -> {}
      [] topo = "pipe" -> IF src = "A" THEN {"wa", "u1"} ELSE {}
      [] topo = "watcher" ->
            {r \in Readers \cup {"wa"} :
                wk[r].pc = "recv" /\ (IF r \in {"u1", "wa"} THEN "A" ELSE "V") = src}
      [] topo = "mapfilter" ->
            IF src = "A" THEN {"wa"} ELSE IF src = "V" THEN {"wb"}
            ELSE IF src = "W" THEN {"ls"} ELSE {}
      [] src = "A" -> IF topo \in WriteSide THEN {"ls"} ELSE {"wa"}
      [] src = "B" -> IF topo \in TwoSided THEN {"wb"} ELSE {}
      [] src = "V" -> IF topo \in IndexTopos THEN {} ELSE {"ls"}
      [] OTHER -> {}

\* The synchronizer each worker acknowledges on.
SyncOf(w) ==
    IF w = "ls" THEN "S"
    ELSE IF topo = "mapfilter" /\ w = "wb" THEN "W"
    ELSE IF topo = "pipe" THEN "B"
    ELSE "V"

\* --------------------------------------------------- pull: View::get_ref
Tree_get_ref(t, k) == store[t][k]

Map_get_ref(k) ==
    LET v == Tree_get_ref("A", k)
    IN  IF v = None THEN None ELSE Some(mapper(k, Unwrap(v)))

Filter_get_ref(k) ==
    LET v == Tree_get_ref("A", k)
    IN  IF v = None THEN None
        ELSE IF filter(k, Unwrap(v)) THEN v ELSE None

\* B.chain(A): the chain with its sides exchanged.
Chain_rev_get_ref(k) ==
    LET b == Tree_get_ref("B", k)
    IN  IF IsSome(b) THEN b ELSE Tree_get_ref("A", k)

Chain_get_ref(k) ==
    LET a == Tree_get_ref("A", k)
    IN  IF IsSome(a) THEN a ELSE Tree_get_ref("B", k)

\* The inner join of A and B, which has a key only when both have it.
Zip_both_get_ref(k) ==
    LET a == Tree_get_ref("A", k)
        b == Tree_get_ref("B", k)
    IN  IF a = None \/ b = None THEN None ELSE Some(<<a, b>>)

Zip_get_ref(k) ==
    LET a == Tree_get_ref("A", k)
        b == Tree_get_ref("B", k)
    IN  IF a = None /\ b = None THEN None ELSE Some(<<a, b>>)

\* Filter::get_ref over a map stage.
MapFilter_get_ref(k) ==
    LET v == Map_get_ref(k)
    IN  IF v = None THEN None
        ELSE IF filter(k, Unwrap(v)) THEN v ELSE None

View_get_ref(k) ==
    CASE topo = "map" -> Map_get_ref(k)
      [] topo = "mapfilter" -> MapFilter_get_ref(k)
      [] topo = "filter" -> Filter_get_ref(k)
      [] topo = "chain" -> Chain_get_ref(k)
      [] topo = "zip" -> Zip_get_ref(k)
      [] topo \in WriteSide -> Tree_get_ref("A", k)

\* ------------------------------------------- push: the worker callbacks
Map_cb(ev) ==
    IF ev.type = "Insert"
    THEN <<Insert(ev.key, mapper(ev.key, ev.value))>>
    ELSE <<Remove(ev.key)>>

Filter_cb(ev) ==
    IF ev.type = "Insert" /\ filter(ev.key, ev.value)
    THEN <<Insert(ev.key, ev.value)>>
    ELSE <<Remove(ev.key)>>

\* Chain's two callbacks are the same code with a and b exchanged: an Insert
\* is passed on as it is, a Remove looks the key up on the other side.
Chain_cb(ev, other) ==
    LET value == IF ev.type = "Insert" THEN Some(ev.value)
                 ELSE Tree_get_ref(other, ev.key)
    IN  IF IsSome(value) THEN <<Insert(ev.key, Unwrap(value))>>
        ELSE <<Remove(ev.key)>>

Zip_cb(w, ev) ==
    LET mine == IF ev.type = "Insert" THEN Some(ev.value) ELSE None
        a == IF w = "wa" THEN mine ELSE Tree_get_ref("A", ev.key)
        b == IF w = "wb" THEN mine ELSE Tree_get_ref("B", ev.key)
    IN  IF a = None /\ b = None THEN <<Remove(ev.key)>>
        ELSE <<Insert(ev.key, <<a, b>>)>>

\* The events the stage's worker w derives from ev.
Stage_cb(w, ev) ==
    CASE topo = "map" -> Map_cb(ev)
      [] topo = "filter" -> Filter_cb(ev)
      [] topo = "chain" -> Chain_cb(ev, IF w = "wa" THEN "B" ELSE "A")
      [] topo = "zip" -> Zip_cb(w, ev)
      [] topo \in BusTopos -> Map_cb(ev)
      [] topo = "mapfilter" -> IF w = "wa" THEN Map_cb(ev) ELSE Filter_cb(ev)

\* Material::new's listener: apply the event to the inner store.
Material_cb(ev) ==
    IF ev.type = "Insert"
    THEN [inner EXCEPT ![ev.key] = Some(ev.value)]
    ELSE [inner EXCEPT ![ev.key] = None]

\* ------------------------------------------------------- Synchronizer
RECURSIVE SumOutgoing(_)
SumOutgoing(srcs) ==
    IF srcs = <<>> THEN 0
    ELSE (outgoing[Head(srcs)] + SumOutgoing(Tail(srcs))) % CounterMod

incoming(s) == SumOutgoing(source[s])

\* A synchronizer that starts from nothing, whatever its sources have sent.
Synchronizer_default(srcs) == 0
\* Synchronizer::from(source): the value `received` starts with.
Synchronizer_from(srcs) == SumOutgoing(srcs)

\* A synchronizer that compares its own counters and asks no source.
own_is_sync(s) == received[s] = incoming(s)

RECURSIVE is_sync(_)
is_sync(s) ==
    LET source_is_sync == \A i \in 1..Len(source[s]) : is_sync(source[s][i])
        self_is_sync == received[s] = incoming(s)
    IN  source_is_sync /\ self_is_sync

\* A bus that never makes its sender wait.
NeverFull(src) == TRUE
\* Bus::broadcast to every reader of src's bus; it blocks while a reader's
\* ring is full.
CanBroadcast(src) == \A r \in Subs(src) : Len(bus[r]) < BusCap
Broadcast(src, ev) ==
    [r \in Workers |-> IF r \in Subs(src) THEN Append(bus[r], ev) ELSE bus[r]]

\* A reader that starts at the oldest event the bus still holds for another
\* reader.
add_rx_oldest(src) ==
    IF Subs(src) = {} THEN <<>>
    ELSE LET r == CHOOSE r \in Subs(src) :
                     \A q \in Subs(src) : Len(bus[q]) <= Len(bus[r])
         IN  bus[r]
\* Bus::add_rx(): what a new reader has to receive: nothing, it starts
\* behind the last event broadcast.
add_rx(src) == <<>>

\* --------------------------------------------------------------- Init
IdleThread == [pc |-> "idle", target |-> "S", idx |-> 0, key |-> 1,
               result |-> None, epoch |-> 0]
IdleWriter == [pc |-> "idle", op |-> "insert", tree |-> "A", key |-> 1,
               value |-> 1, old |-> None]
IdleWorker == [pc |-> "recv", events |-> <<>>]

\* The state after: a, b = open_tree; V = a.<op>(b); S = V.store(name).
InitTopo(t) ==
    /\ topo = t
    /\ store = [x \in Trees |-> [k \in Keys |-> None]]
    /\ inner = [k \in Keys |-> None]
    /\ SYNCS = IF t \in TwoSided THEN <<"A", "B", "I">> ELSE <<"A", "I">>
    /\ source = [s \in Syncs |->
                    CASE s = "V" -> IF t \in TwoSided THEN <<"A", "B">> ELSE <<"A">>
                      [] s = "S" -> <<"V">>
                      [] OTHER -> <<>>]
    /\ received = [s \in Syncs |-> 0]
    /\ outgoing = [s \in Syncs |-> 0]
    /\ waiting = [s \in Syncs |-> {}]
    /\ token = [x \in Threads |-> FALSE]
    /\ bus = [r \in Workers |-> <<>>]
    /\ wk = [w \in Workers |-> IdleWorker]
    /\ thr = [x \in Threads |-> IdleThread]
    /\ wr = [w \in Writers |-> IdleWriter]
    /\ nwrites = 0
    /\ hist = [k \in Keys |-> <<>>]
    /\ fwd = [ik \in IKeys |-> None]
    /\ bwd = [k \in IdxKeys |-> None]

Init == \E t \in {"map", "filter", "chain", "zip"} : InitTopo(t)

\* ------------------------------------------- Tree::insert_owned / remove_owned
\* A thread calls tree.insert(k, v) or tree.remove(k).
Tree_call(w, op, t, k, v) ==
    /\ wr[w].pc = "idle"
    /\ nwrites < WriteBound
    /\ t \in UsedTrees
    /\ wr' = [wr EXCEPT ![w] = [pc |-> "outgoing", op |-> op, tree |-> t,
                                key |-> k, value |-> v, old |-> None]]
    /\ nwrites' = nwrites + 1
    /\ UNCHANGED <<topo, store, inner, SYNCS, source, received, outgoing,
                   waiting, token, bus, wk, thr, hist, fwd, bwd>>

\* self.sync.outgoing(1): the first statement of both.
Tree_outgoing(w) ==
    /\ wr[w].pc = "outgoing"
    /\ outgoing' = [outgoing EXCEPT ![wr[w].tree] = (@ + 1) % CounterMod]
    /\ wr' = [wr EXCEPT ![w].pc = IF wr[w].op = "insert" THEN "inner" ELSE "send"]
    /\ UNCHANGED <<topo, store, inner, SYNCS, source, received, waiting,
                   token, bus, wk, thr, nwrites, hist, fwd, bwd>>

\* self.inner.insert(key, value) / self.inner.remove(&ser_key)
Tree_inner(w) ==
    /\ wr[w].pc = "inner"
    /\ store' = [store EXCEPT ![wr[w].tree][wr[w].key] =
                    IF wr[w].op = "insert" THEN Some(wr[w].value) ELSE None]
    /\ wr' = [wr EXCEPT ![w].pc = IF wr[w].op = "insert" THEN "send" ELSE "idle"]
    /\ UNCHANGED <<topo, inner, SYNCS, source, received, outgoing, waiting,
                   token, bus, wk, thr, nwrites, hist, fwd, bwd>>

\* self.watcher.send(event): insert sends after the store is written,
\* remove sends before.
Tree_send(w) ==
    /\ wr[w].pc = "send"
    /\ CanBroadcast(wr[w].tree)
    /\ bus' = Broadcast(wr[w].tree,
                        IF wr[w].op = "insert"
                        THEN Insert(wr[w].key, wr[w].value)
                        ELSE Remove(wr[w].key))
    /\ wr' = [wr EXCEPT ![w].pc = IF wr[w].op = "insert" THEN "idle" ELSE "inner"]
    /\ UNCHANGED <<topo, store, inner, SYNCS, source, received, outgoing,
                   waiting, token, wk, thr, nwrites, hist, fwd, bwd>>

\* ------------------------------------- spawn_watcher / spawn_listener
\* reader.recv() and cb(event).
Worker_recv(w) ==
    /\ wk[w].pc = "recv"
    /\ bus[w] # <<>>
    /\ bus' = [bus EXCEPT ![w] = Tail(@)]
    /\ IF w = "ls"
       THEN /\ inner' = Material_cb(Head(bus[w]))
            /\ outgoing' = [outgoing EXCEPT !["I"] = (@ + 1) % CounterMod]
            /\ wk' = [wk EXCEPT ![w] = [pc |-> "received", events |-> <<>>]]
       ELSE /\ wk' = [wk EXCEPT ![w] = [pc |-> "received",
                                        events |-> Stage_cb(w, Head(bus[w]))]]
            /\ UNCHANGED <<inner, outgoing>>
    /\ UNCHANGED <<topo, store, SYNCS, source, received, waiting, token,
                   thr, wr, nwrites, hist, fwd, bwd>>

\* synchronizer.received(), first half: self.received.fetch_add(1).
Worker_received(w) ==
    /\ wk[w].pc = "received"
    /\ received' = [received EXCEPT ![SyncOf(w)] = (@ + 1) % CounterMod]
    /\ wk' = [wk EXCEPT ![w].pc = "wake"]
    /\ UNCHANGED <<topo, store, inner, SYNCS, source, outgoing, waiting,
                   token, bus, thr, wr, nwrites, hist, fwd, bwd>>

\* synchronizer.received(), second half: if is_sync, drain waiting and unpark.
Worker_wake(w) ==
    /\ wk[w].pc = "wake"
    /\ IF is_sync(SyncOf(w))
       THEN /\ token' = [x \in Threads |->
                            IF x \in waiting[SyncOf(w)] THEN TRUE ELSE token[x]]
            /\ waiting' = [waiting EXCEPT ![SyncOf(w)] = {}]
       ELSE UNCHANGED <<token, waiting>>
    /\ wk' = [wk EXCEPT ![w].pc = "outgoing"]
    /\ UNCHANGED <<topo, store, inner, SYNCS, source, received, outgoing,
                   bus, thr, wr, nwrites, hist, fwd, bwd>>

\* A worker that broadcasts its events without counting them.
Worker_counts_none(w) ==
    /\ wk[w].pc = "outgoing"
    /\ wk' = [wk EXCEPT ![w].pc = IF wk[w].events = <<>> THEN "recv" ELSE "broadcast"]
    /\ UNCHANGED <<topo, store, inner, SYNCS, source, received, outgoing,
                   waiting, token, bus, thr, wr, nwrites, hist, fwd, bwd>>

\* A worker that counts one outgoing event per event received, whatever
\* its callback returned.
Worker_counts_one(w) ==
    /\ wk[w].pc = "outgoing"
    /\ outgoing' = [outgoing EXCEPT ![SyncOf(w)] = (@ + 1) % CounterMod]
    /\ wk' = [wk EXCEPT ![w].pc = IF wk[w].events = <<>> THEN "recv" ELSE "broadcast"]
    /\ UNCHANGED <<topo, store, inner, SYNCS, source, received, waiting,
                   token, bus, thr, wr, nwrites, hist, fwd, bwd>>

\* synchronizer.outgoing(sent): the listener's callback returned Ok(1), the
\* watcher's the list of events.
Worker_outgoing(w) ==
    /\ wk[w].pc = "outgoing"
    /\ LET sent == IF w = "ls" THEN 1 ELSE Len(wk[w].events)
       IN  outgoing' = [outgoing EXCEPT ![SyncOf(w)] = (@ + sent) % CounterMod]
    /\ wk' = [wk EXCEPT ![w].pc = IF wk[w].events = <<>> THEN "recv" ELSE "broadcast"]
    /\ UNCHANGED <<topo, store, inner, SYNCS, source, received, waiting,
                   token, bus, thr, wr, nwrites, hist, fwd, bwd>>

\* for event in events { bus.write().broadcast(event) }
Worker_broadcast(w) ==
    /\ wk[w].pc = "broadcast"
    /\ CanBroadcast(SyncOf(w))
    /\ bus' = Broadcast(SyncOf(w), Head(wk[w].events))
    /\ wk' = [wk EXCEPT ![w] = [pc |-> IF Len(wk[w].events) = 1 THEN "recv"
                                       ELSE "broadcast",
                                events |-> Tail(wk[w].events)]]
    /\ UNCHANGED <<topo, store, inner, SYNCS, source, received, outgoing,
                   waiting, token, thr, wr, nwrites, hist, fwd, bwd>>

\* ------------------------------------------------ Synchronizer::wait
WritersIdle == \A w \in Writers : wr[w].pc = "idle"
\* What a thread notes when it calls wait_all() (for the statements about it,
\* read by no action): the number of write calls so far when all of them have
\* returned, -1 when one is in progress.
Epoch == IF WritersIdle THEN nwrites ELSE -1

\* Material::get_ref(key): self.sync.wait(), then self.inner.get_ref(key).
Material_get_call(t, k) ==
    /\ t = "r"
    /\ thr[t].pc = "idle"
    /\ thr' = [thr EXCEPT ![t] = [pc |-> "check", target |-> "S", idx |-> 0,
                                  key |-> k, result |-> None, epoch |-> 0]]
    /\ UNCHANGED <<topo, store, inner, SYNCS, source, received, outgoing,
                   waiting, token, bus, wk, wr, nwrites, hist, fwd, bwd>>

\* wait_all(): for sync in SYNCS.lock().iter() { sync.wait() }
wait_all_call(t) ==
    /\ t = "g"
    /\ thr[t].pc = "idle"
    /\ thr' = [thr EXCEPT ![t] = [pc |-> "check", target |-> SYNCS[1], idx |-> 1,
                                  key |-> 1, result |-> None, epoch |-> Epoch]]
    /\ UNCHANGED <<topo, store, inner, SYNCS, source, received, outgoing,
                   waiting, token, bus, wk, wr, nwrites, hist, fwd, bwd>>

\* Where a thread goes when its wait() returns.
AfterWait(t) ==
    IF t = "g"
    THEN IF thr[t].idx < Len(SYNCS)
         THEN [thr[t] EXCEPT !.idx = @ + 1, !.target = SYNCS[thr[t].idx + 1]]
         ELSE [thr[t] EXCEPT !.pc = "done"]
    ELSE [thr[t] EXCEPT !.pc = "read"]

\* loop { if self.is_sync() { break; } ...
wait_check(t) ==
    /\ thr[t].pc = "check"
    /\ thr' = [thr EXCEPT ![t] = IF is_sync(thr[t].target) THEN AfterWait(t)
                                 ELSE [thr[t] EXCEPT !.pc = "push"]]
    /\ UNCHANGED <<topo, store, inner, SYNCS, source, received, outgoing,
                   waiting, token, bus, wk, wr, nwrites, hist, fwd, bwd>>

\* ... waiting.lock().push(thread::current()) ...
wait_push(t) ==
    /\ thr[t].pc = "push"
    /\ waiting' = [waiting EXCEPT ![thr[t].target] = @ \cup {t}]
    /\ thr' = [thr EXCEPT ![t].pc = "park"]
    /\ UNCHANGED <<topo, store, inner, SYNCS, source, received, outgoing,
                   token, bus, wk, wr, nwrites, hist, fwd, bwd>>

\* ... std::thread::park() }: returns once the token is there, and takes it.
wait_park(t) ==
    /\ thr[t].pc = "park"
    /\ token[t]
    /\ token' = [token EXCEPT ![t] = FALSE]
    /\ thr' = [thr EXCEPT ![t].pc = "check"]
    /\ UNCHANGED <<topo, store, inner, SYNCS, source, received, outgoing,
                   waiting, bus, wk, wr, nwrites, hist, fwd, bwd>>

\* self.inner.get_ref(key), after the wait.
Material_get_read(t) ==
    /\ thr[t].pc = "read"
    /\ thr' = [thr EXCEPT ![t].pc = "idle", ![t].result = inner[thr[t].key]]
    /\ UNCHANGED <<topo, store, inner, SYNCS, source, received, outgoing,
                   waiting, token, bus, wk, wr, nwrites, hist, fwd, bwd>>

\* wait_all() returns.
wait_all_return(t) ==
    /\ t = "g"
    /\ thr[t].pc = "done"
    /\ thr' = [thr EXCEPT ![t].pc = "idle"]
    /\ UNCHANGED <<topo, store, inner, SYNCS, source, received, outgoing,
                   waiting, token, bus, wk, wr, nwrites, hist, fwd, bwd>>

Next ==
    \/ \E op \in {"insert", "remove"}, t \in Trees, k \in Keys, v \in Vals :
          Tree_call("w1", op, t, k, v)
    \/ Tree_outgoing("w1")
    \/ Tree_inner("w1")
    \/ Tree_send("w1")
    \/ \E w \in Workers : Worker_recv(w)
    \/ \E w \in Workers : Worker_received(w)
    \/ \E w \in Workers : Worker_wake(w)
    \/ \E w \in Workers : Worker_outgoing(w)
    \/ \E w \in Workers : Worker_broadcast(w)
    \/ \E t \in Threads, k \in Keys : Material_get_call(t, k)
    \/ \E t \in Threads : wait_all_call(t)
    \/ \E t \in Threads : wait_check(t)
    \/ \E t \in Threads : wait_push(t)
    \/ \E t \in Threads : wait_park(t)
    \/ \E t \in Threads : Material_get_read(t)
    \/ \E t \in Threads : wait_all_return(t)

Spec == Init /\ [][Next]_vars

\* ---------------------------------------------------------------------
\* Statements about the pipeline
\* ---------------------------------------------------------------------
\* Nothing is left to do for any worker: every broadcast event was received
\* and its worker is back at reader.recv().
WorkersIdle == \A w \in Workers : bus[w] = <<>> /\ wk[w].pc = "recv"
Quiescent == WritersIdle /\ WorkersIdle
\* The materialization holds what the view evaluates to.
Mirrors == \A k \in Keys : inner[k] = View_get_ref(k)

\* C1: whenever the wait inside S.get returns and no write call is in
\* progress, the inner store of S holds V.get(k) for every key k.
C1_WaitReturnsConsistent ==
    [][(thr["r"].pc = "check" /\ thr'["r"].pc = "read" /\ WritersIdle)
         => Mirrors]_vars

\* C2: once the writes have stopped and every worker has processed every
\* event, no thread that called wait() is left parked without a wake-up.
C2_NoLostWakeup ==
    Quiescent => \A t \in Threads : ~(thr[t].pc = "park" /\ ~token[t])

\* C3: when wait_all(), called after the writes, returns, every
\* materialization holds the eager evaluation of its pipeline.
C3_WaitAllQuiesces ==
    (thr["g"].pc = "done" /\ WritersIdle /\ thr["g"].epoch = nwrites) => Mirrors

\* C9: a materialization of A.chain(B) holds A.get(k).or(B.get(k)) for every
\* key once every event of the writes to A and B has been processed.
C9_ChainMaterialMirrors ==
    (topo = "chain" /\ Quiescent) =>
        \A k \in Keys : inner[k] = OptionOr(Tree_get_ref("A", k), Tree_get_ref("B", k))

\* ---------------------------------------------------------------------
\* Reading a view directly
\* ---------------------------------------------------------------------
\* The state after: a, b = open_tree of a database with any contents;
\* V = a.chain(b) or a.zip(b).  Nothing is materialized, so no bus is built.
InitPull(t) ==
    /\ topo = t
    /\ store \in [Trees -> [PullKeys -> Options]]
    /\ inner = [k \in Keys |-> None]
    /\ SYNCS = <<"A", "B">>
    /\ source = [s \in Syncs |-> IF s = "V" THEN <<"A", "B">> ELSE <<>>]
    /\ received = [s \in Syncs |-> 0]
    /\ outgoing = [s \in Syncs |-> 0]
    /\ waiting = [s \in Syncs |-> {}]
    /\ token = [x \in Threads |-> FALSE]
    /\ bus = [r \in Workers |-> <<>>]
    /\ wk = [w \in Workers |-> IdleWorker]
    /\ thr = [x \in Threads |-> IdleThread]
    /\ wr = [w \in Writers |-> IdleWriter]
    /\ nwrites = 0
    /\ hist = [k \in Keys |-> <<>>]
    /\ fwd = [ik \in IKeys |-> None]
    /\ bwd = [k \in IdxKeys |-> None]

\* V.get(k): Chain::get_ref / Zip::get_ref.  The waits inside a.get_ref and
\* b.get_ref return at once: a base tree's synchronizer has no source.
View_get(t, k) ==
    /\ thr[t].pc = "idle"
    /\ is_sync("A") /\ is_sync("B")
    /\ thr' = [thr EXCEPT ![t] = [pc |-> "got", target |-> "V", idx |-> 0,
                                  key |-> k, result |-> View_get_ref(k),
                                  epoch |-> 0]]
    /\ UNCHANGED <<topo, store, inner, SYNCS, source, received, outgoing,
                   waiting, token, bus, wk, wr, nwrites, hist, fwd, bwd>>

\* The caller takes the result.
View_get_return(t) ==
    /\ thr[t].pc = "got"
    /\ thr' = [thr EXCEPT ![t] = IdleThread]
    /\ UNCHANGED <<topo, store, inner, SYNCS, source, received, outgoing,
                   waiting, token, bus, wk, wr, nwrites, hist, fwd, bwd>>

NextPull ==
    \/ \E k \in PullKeys : View_get("r", k)
    \/ View_get_return("r")

SpecPull == (\E t \in TwoSided : InitPull(t)) /\ [][NextPull]_vars

\* The call V.get(k) of thread r has just computed its result.
Got(t) == topo = t /\ thr["r"].pc = "got"
GotA == store["A"][thr["r"].key]
GotB == store["B"][thr["r"].key]

\* C8: Chain.get(k) is A's value when A has k, otherwise B's value,
\* otherwise None, for any contents of A and B.
C8_ChainGet ==
    Got("chain") =>
        thr["r"].result = (CASE GotA # None -> GotA
                             [] GotA = None /\ GotB # None -> GotB
                             [] OTHER -> None)
\* A lacks the key, B has it, and the chain returned B's value.
C8_Witness ==
    Got("chain") /\ GotA = None /\ GotB = Some(2) /\ thr["r"].result = Some(2)

\* C10: Zip.get(k) is Some((A.get(k), B.get(k))) when at least one of A, B
\* has k, and None otherwise.
C10_ZipGet ==
    Got("zip") =>
        thr["r"].result = IF GotA # None \/ GotB # None
                          THEN Some(<<GotA, GotB>>) ELSE None
\* Only A has the key, and the zip returned Some((Some(1), None)).
C10_Witness ==
    Got("zip") /\ GotA = Some(1) /\ GotB = None
        /\ thr["r"].result = Some(<<Some(1), None>>)

\* ---------------------------------------------------------------------
\* Writing through a reducer
\* ---------------------------------------------------------------------
\* The state after: a = open_tree; R = a.reducer(r) or a.reduce(r);
\* S = R.store(name).  Material::new calls R.watch() and R.sync(), which are
\* a's: the listener reads a's bus and S waits on a's synchronizer.
InitReducer(t) ==
    /\ topo = t
    /\ store = [x \in Trees |-> [k \in Keys |-> None]]
    /\ inner = [k \in Keys |-> None]
    /\ SYNCS = <<"A", "I">>
    /\ source = [s \in Syncs |-> IF s = "S" THEN <<"A">> ELSE <<>>]
    /\ received = [s \in Syncs |-> 0]
    /\ outgoing = [s \in Syncs |-> 0]
    /\ waiting = [s \in Syncs |-> {}]
    /\ token = [x \in Threads |-> FALSE]
    /\ bus = [r \in Workers |-> <<>>]
    /\ wk = [w \in Workers |-> IdleWorker]
    /\ thr = [x \in Threads |-> IdleThread]
    /\ wr = [w \in Writers |-> IdleWriter]
    /\ nwrites = 0
    /\ hist = [k \in Keys |-> <<>>]
    /\ fwd = [ik \in IKeys |-> None]
    /\ bwd = [k \in IdxKeys |-> None]

\* Reducer::insert_ref(key, value): self.from.fetch_and_update(key, ...).
Reducer_insert_ref(w, k, m) ==
    /\ topo = "reducer"
    /\ wr[w].pc = "idle"
    /\ nwrites < MaxWrites
    /\ wr' = [wr EXCEPT ![w] = [pc |-> "fetch_and_update", op |-> "insert",
                                tree |-> "A", key |-> k, value |-> m,
                                old |-> None]]
    /\ nwrites' = nwrites + 1
    /\ hist' = [hist EXCEPT ![k] = Append(@, [op |-> "insert", value |-> m])]
    /\ UNCHANGED <<topo, store, inner, SYNCS, source, received, outgoing,
                   waiting, token, bus, wk, thr, fwd, bwd>>

\* Tree::fetch_and_update: delegated to sled, whose fetch_and_update reads
\* the old value and writes the new one as one atomic step.  The tree neither
\* counts the write in sync.outgoing nor sends an event.
Tree_fetch_and_update(w) ==
    /\ wr[w].pc = "fetch_and_update"
    /\ store' = [store EXCEPT ![wr[w].tree][wr[w].key] =
                    Some(reducer(@, wr[w].value))]
    /\ wr' = [wr EXCEPT ![w].pc = "idle", ![w].old = store[wr[w].tree][wr[w].key]]
    /\ UNCHANGED <<topo, inner, SYNCS, source, received, outgoing, waiting,
                   token, bus, wk, thr, nwrites, hist, fwd, bwd>>

\* Reduce::insert_ref(key, value), the call.
Reduce_insert_ref(w, k, m) ==
    /\ topo = "reduce"
    /\ wr[w].pc = "idle"
    /\ nwrites < MaxWrites
    /\ wr' = [wr EXCEPT ![w] = [pc |-> "get", op |-> "insert", tree |-> "A",
                                key |-> k, value |-> m, old |-> None]]
    /\ nwrites' = nwrites + 1
    /\ hist' = [hist EXCEPT ![k] = Append(@, [op |-> "insert", value |-> m])]
    /\ UNCHANGED <<topo, store, inner, SYNCS, source, received, outgoing,
                   waiting, token, bus, wk, thr, fwd, bwd>>

\* let v = self.from.get_ref(key)?; let v = (self.reducer)(v, value); then
\* self.from.insert_owned(key, v) follows, step by step as Tree::insert_owned.
Reduce_get(w) ==
    /\ wr[w].pc = "get"
    /\ is_sync(wr[w].tree)
    /\ LET v == Tree_get_ref(wr[w].tree, wr[w].key)
       IN  wr' = [wr EXCEPT ![w].pc = "outgoing", ![w].old = v,
                            ![w].value = reducer(v, wr[w].value)]
    /\ UNCHANGED <<topo, store, inner, SYNCS, source, received, outgoing,
                   waiting, token, bus, wk, thr, nwrites, hist, fwd, bwd>>

\* remove_ref / remove_owned: delegated to self.from, Tree::remove_owned.
Reducer_remove(w, k) ==
    /\ wr[w].pc = "idle"
    /\ nwrites < MaxWrites
    /\ wr' = [wr EXCEPT ![w] = [pc |-> "outgoing", op |-> "remove", tree |-> "A",
                                key |-> k, value |-> 1, old |-> None]]
    /\ nwrites' = nwrites + 1
    /\ hist' = [hist EXCEPT ![k] = Append(@, [op |-> "remove", value |-> 0])]
    /\ UNCHANGED <<topo, store, inner, SYNCS, source, received, outgoing,
                   waiting, token, bus, wk, thr, fwd, bwd>>

\* The steps of the thread w, and of the listener of S.
Reducer_thread(w) ==
    \/ \E k \in Keys, m \in Vals : Reducer_insert_ref(w, k, m)
    \/ Tree_fetch_and_update(w)
    \/ \E k \in Keys, m \in Vals : Reduce_insert_ref(w, k, m)
    \/ Reduce_get(w)
    \/ \E k \in Keys : Reducer_remove(w, k)
    \/ Tree_outgoing(w)
    \/ Tree_inner(w)
    \/ Tree_send(w)

Listener ==
    \/ Worker_recv("ls")
    \/ Worker_received("ls")
    \/ Worker_wake("ls")
    \/ Worker_outgoing("ls")

\* Two threads write through R.
NextReducer == Reducer_thread("w1") \/ Reducer_thread("w2") \/ Listener
SpecReducer == (\E t \in WriteSide : InitReducer(t)) /\ [][NextReducer]_vars

\* One thread writes through R, one call after the other.
NextReducerSeq == Reducer_thread("w1") \/ Listener
SpecReducerSeq == (\E t \in WriteSide : InitReducer(t)) /\ [][NextReducerSeq]_vars

\* What a sequence of calls through R leaves under a key when they take
\* effect one after the other: the sum of the merges since the last remove.
RECURSIVE Folded(_)
Folded(h) ==
    IF h = <<>> THEN None
    ELSE LET last == h[Len(h)]
             prev == Folded(SubSeq(h, 1, Len(h) - 1))
         IN  IF last.op = "remove" THEN None
             ELSE Some((IF prev = None THEN 0 ELSE prev[1]) + last.value)

BothInserts(k) ==
    Len(hist[k]) = 2 /\ hist[k][1].op = "insert" /\ hist[k][2].op = "insert"

\* C5: when two insert calls through a reducer for the same key have both
\* returned, whatever their interleaving, the tree holds r(r(old, m1), m2) or
\* r(r(old, m2), m1): no merge is lost.
C5_ReducerLinearizable ==
    \A k \in Keys :
        (WritersIdle /\ BothInserts(k)) =>
            store["A"][k] \in {Folded(hist[k]), Folded(<<hist[k][2], hist[k][1]>>)}

\* C6: after a sequential series of calls R.insert(k, m1), R.insert(k, m2),
\* ..., R.remove(k), the tree holds under k the left fold of the merges since
\* the last remove, and nothing when the last call was a remove.
C6_ReducerFold ==
    \A k \in Keys : WritersIdle => store["A"][k] = Folded(hist[k])
\* R.insert(1, 2) then R.insert(1, 1) through a Reducer left Some(3).
C6_Witness ==
    /\ topo = "reducer" /\ WritersIdle
    /\ hist[1] = <<[op |-> "insert", value |-> 2], [op |-> "insert", value |-> 1]>>
    /\ store["A"][1] = Some(3)

\* C7: once a write through a write-side stage has returned and the listener
\* of S = R.store(name) has nothing left to receive, the tree has counted
\* every call in its outgoing counter and S holds what the tree holds.
C7_WriteSideBroadcasts ==
    (WritersIdle /\ bus["ls"] = <<>> /\ wk["ls"].pc = "recv") =>
        /\ outgoing["A"] = nwrites
        /\ \A k \in Keys : inner[k] = store["A"][k]

\* ---------------------------------------------------------------------
\* A materialized index
\* ---------------------------------------------------------------------
\* fwd and bwd are Loaded maps, which keep the StableVec itself, or Trees,
\* which keep its bytes: Tree::insert_ref serializes, Tree::get_ref
\* deserializes.
Stored == topo = "index_stored"
Put(sv) == IF Stored THEN StableVec_serialize(sv) ELSE sv
Get(x) == IF Stored THEN StableVec_deserialize(x) ELSE x

\* fwd.get_ref(&k).ok().flatten().unwrap_or_default()
fwd_get_or_default(f, ik) == IF f[ik] = None THEN StableVec_new ELSE Get(Unwrap(f[ik]))

\* changed.entry(ik).or_insert_with(|| fwd.get_ref(&ik)...): `changed` is the
\* HashMap of the callback, None where it has no entry.
Changed_entry(changed, ik) ==
    IF changed[ik] # None THEN changed
    ELSE [changed EXCEPT ![ik] = Some(fwd_get_or_default(fwd, ik))]

\* for (k, position) in bwd_keys.into_vec() { entry.remove(position) }
RECURSIVE RemoveOld(_, _)
RemoveOld(changed, olds) ==
    IF olds = <<>> THEN changed
    ELSE LET ik == Head(olds)[1]
             position == Head(olds)[2]
             c == Changed_entry(changed, ik)
         IN  RemoveOld([c EXCEPT ![ik] = Some(StableVec_remove(Unwrap(c[ik]), position))],
                       Tail(olds))

\* for i in new_entries { position = entry.push(key); bwd_keys.push((i, position)) }
\* st: the changed map, the new bwd_keys, and whether a push panicked.
RECURSIVE AddNew(_, _, _)
AddNew(st, key, entries) ==
    IF entries = <<>> \/ st.panic THEN st
    ELSE LET i == Head(entries)
             c == Changed_entry(st.changed, i)
             pushed == StableVec_push(Unwrap(c[i]), key)
         IN  IF pushed.panic THEN [st EXCEPT !.panic = TRUE]
             ELSE AddNew([changed |-> [c EXCEPT ![i] = Some(pushed.sv)],
                          bwd_keys |-> StableVec_push(st.bwd_keys,
                                                      <<i, pushed.position>>).sv,
                          panic |-> FALSE],
                         key, Tail(entries))

\* values_from_keys!(source, keys): the values of the keys the source has.
RECURSIVE values_from_keys(_)
values_from_keys(keys) ==
    IF keys = <<>> THEN <<>>
    ELSE LET value == Tree_get_ref("A", Head(keys))
         IN  (IF IsSome(value) THEN <<Unwrap(value)>> ELSE <<>>)
             \o values_from_keys(Tail(keys))

\* A callback that emits no Remove for an indexed key left without keys.
RECURSIVE IndexInserts(_, _)
IndexInserts(changed, ik) ==
    IF ik \notin IKeys THEN <<>>
    ELSE (IF changed[ik] = None \/ StableVec_is_empty(Unwrap(changed[ik])) THEN <<>>
          ELSE <<Insert(ik, values_from_keys(StableVec_into_vec(Unwrap(changed[ik]))))>>)
         \o IndexInserts(changed, ik + 1)

\* for (index, keys) in changed.into_iter(): the events, one per changed
\* indexed key from ik upwards.  (The order of a HashMap is unspecified;
\* nothing reads the bus of MI here.)
RECURSIVE IndexEvents(_, _)
IndexEvents(changed, ik) ==
    IF ik \notin IKeys THEN <<>>
    ELSE (IF changed[ik] = None THEN <<>>
          ELSE IF StableVec_is_empty(Unwrap(changed[ik])) THEN <<Remove(ik)>>
          ELSE <<Insert(ik, values_from_keys(StableVec_into_vec(Unwrap(changed[ik]))))>>)
         \o IndexEvents(changed, ik + 1)

\* fwd.remove_ref(&index) or fwd.insert_ref(&index, &keys) per changed key.
IndexFwd(changed) ==
    [ik \in IKeys |->
        IF changed[ik] = None THEN fwd[ik]
        ELSE IF StableVec_is_empty(Unwrap(changed[ik])) THEN None
        ELSE Some(Put(Unwrap(changed[ik])))]

\* The callback of MaterialIndex::new's worker on one event: what it leaves
\* in fwd and bwd, the events it returns, and whether it panicked.  A panic
\* unwinds: the Entry of bwd is dropped, which writes bwd_keys back, and fwd
\* is not reached.
Index_cb(ev) ==
    LET key == ev.key
        bwd_keys == IF bwd[key] = None THEN StableVec_new ELSE Get(Unwrap(bwd[key]))
        none == [ik \in IKeys |-> None]
        removed == RemoveOld(none, StableVec_into_vec(bwd_keys))
        added == IF ev.type = "Insert"
                 THEN AddNew([changed |-> removed, bwd_keys |-> StableVec_new,
                              panic |-> FALSE], key, indexer(key, ev.value))
                 ELSE [changed |-> removed, bwd_keys |-> StableVec_new,
                       panic |-> FALSE]
        bwd_after == [bwd EXCEPT ![key] = IF ev.type = "Insert"
                                          THEN Some(Put(added.bwd_keys)) ELSE None]
    IN  IF added.panic
        THEN [fwd |-> fwd, bwd |-> bwd_after, events |-> <<>>, panic |-> TRUE,
              nfwd |-> 0]
        ELSE [fwd |-> IndexFwd(added.changed), bwd |-> bwd_after,
              events |-> IndexEvents(added.changed, 0), panic |-> FALSE,
              nfwd |-> Cardinality({ik \in IKeys : added.changed[ik] # None})]

\* The state after: a = open_tree (empty); MI = a.index(f).load(), with fwd
\* and bwd in memory and an empty rebuild, or a.index(f).store(name), with
\* fwd and bwd in two fresh trees.
InitIndex(t) ==
    /\ topo = t
    /\ store = [x \in Trees |-> [k \in IdxKeys |-> None]]
    /\ inner = [k \in Keys |-> None]
    /\ SYNCS = IF t = "index_stored" THEN <<"A", "FWD", "BWD">> ELSE <<"A">>
    /\ source = [s \in Syncs |-> IF s = "V" THEN <<"A">> ELSE <<>>]
    /\ received = [s \in Syncs |-> 0]
    /\ outgoing = [s \in Syncs |-> 0]
    /\ waiting = [s \in Syncs |-> {}]
    /\ token = [x \in Threads |-> FALSE]
    /\ bus = [r \in Workers |-> <<>>]
    /\ wk = [w \in Workers |-> IdleWorker]
    /\ thr = [x \in Threads |-> IdleThread]
    /\ wr = [w \in Writers |-> IdleWriter]
    /\ nwrites = 0
    /\ hist = [k \in Keys |-> <<>>]
    /\ fwd = [ik \in IKeys |-> None]
    /\ bwd = [k \in IdxKeys |-> None]

\* reader.recv() and cb(event) of MaterialIndex::new's worker.  Only this
\* worker writes fwd and bwd.  When they are trees, every remove_ref and
\* insert_ref on them counts in that tree's outgoing: bwd.remove_ref, the
\* write-back of the bwd Entry on an Insert, and one write of fwd per changed
\* indexed key.  A panic ends the worker's thread.
Index_recv(w) ==
    /\ wk[w].pc = "recv"
    /\ bus[w] # <<>>
    /\ bus' = [bus EXCEPT ![w] = Tail(@)]
    /\ LET ev == Head(bus[w])
           r == Index_cb(ev)
           nbwd == IF ev.type = "Insert" THEN 2 ELSE 1
       IN  /\ fwd' = r.fwd
           /\ bwd' = r.bwd
           /\ wk' = [wk EXCEPT ![w] = IF r.panic
                                      THEN [pc |-> "dead", events |-> <<>>]
                                      ELSE [pc |-> "received", events |-> r.events]]
           /\ outgoing' = IF Stored
                          THEN [outgoing EXCEPT
                                   !["BWD"] = (@ + nbwd) % CounterMod,
                                   !["FWD"] = (@ + r.nfwd) % CounterMod]
                          ELSE outgoing
    /\ UNCHANGED <<topo, store, inner, SYNCS, source, received, waiting, token,
                   thr, wr, nwrites, hist>>

\* MaterialIndex::get_ref(key): self.sync.wait(), then the read below.
MaterialIndex_get_call(t, ik) ==
    /\ thr[t].pc = "idle"
    /\ thr' = [thr EXCEPT ![t] = [pc |-> "check", target |-> "V", idx |-> 0,
                                  key |-> ik, result |-> None, epoch |-> 0]]
    /\ UNCHANGED <<topo, store, inner, SYNCS, source, received, outgoing,
                   waiting, token, bus, wk, wr, nwrites, hist, fwd, bwd>>

\* self.fwd.get_ref(key), the keys' values from the source, None when there
\* is no value.
MaterialIndex_get_ref(ik) ==
    IF fwd[ik] = None THEN None
    ELSE LET keys == StableVec_into_vec(Get(Unwrap(fwd[ik])))
             values == values_from_keys(keys)
         IN  IF values = <<>> THEN None ELSE Some(values)

MaterialIndex_get_read(t) ==
    /\ thr[t].pc = "read"
    /\ thr' = [thr EXCEPT ![t].pc = "idle",
                          ![t].result = MaterialIndex_get_ref(thr[t].key)]
    /\ UNCHANGED <<topo, store, inner, SYNCS, source, received, outgoing,
                   waiting, token, bus, wk, wr, nwrites, hist, fwd, bwd>>

NextIndex ==
    \/ \E op \in {"insert", "remove"}, k \in IdxKeys, v \in Vals :
          Tree_call("w1", op, "A", k, v)
    \/ Tree_outgoing("w1")
    \/ Tree_inner("w1")
    \/ Tree_send("w1")
    \/ Index_recv("wa")
    \/ Worker_received("wa")
    \/ Worker_wake("wa")
    \/ Worker_outgoing("wa")
    \/ Worker_broadcast("wa")
    \/ \E ik \in IKeys : MaterialIndex_get_call("r", ik)
    \/ wait_check("r")
    \/ wait_push("r")
    \/ wait_park("r")
    \/ MaterialIndex_get_read("r")

SpecIndex == (\E t \in IndexTopos : InitIndex(t)) /\ [][NextIndex]_vars

\* The source keys that the indexer puts under ik, and their values as a
\* multiset (a function from value to count).
Matching(ik) ==
    {k \in IdxKeys : /\ store["A"][k] # None
                     /\ \E j \in DOMAIN indexer(k, store["A"][k][1]) :
                            indexer(k, store["A"][k][1])[j] = ik}
ExpectedBag(ik) ==
    [v \in {store["A"][k][1] : k \in Matching(ik)} |->
        Cardinality({k \in Matching(ik) : store["A"][k][1] = v})]
BagOf(seq) ==
    [v \in {seq[i] : i \in DOMAIN seq} |->
        Cardinality({i \in DOMAIN seq : seq[i] = v})]

\* Nothing is left to run: the writes have returned, and the worker of MI
\* has received every event or its thread has ended.
IdxSettled ==
    /\ WritersIdle
    /\ \/ wk["wa"].pc = "recv" /\ bus["wa"] = <<>>
       \/ wk["wa"].pc = "dead"

\* C4: after any sequence of inserts, overwrites and removes on T, once
\* nothing is left to run, wait(MI) can return and MI.get(ik) is, as a
\* multiset, the values of the source keys that f puts under ik, and None
\* when there is none; for a loaded and for a stored index.
C4_IndexMirrors ==
    IdxSettled =>
        /\ is_sync("V")
        /\ \A ik \in IKeys :
              LET got == MaterialIndex_get_ref(ik)
              IN  IF Matching(ik) = {} THEN got = None
                  ELSE got # None /\ BagOf(Unwrap(got)) = ExpectedBag(ik)

\* C11: a materialization of A.zip(B) holds Zip.get(k) for every key once
\* every event of the writes to A and B has been processed.
C11_ZipMaterialMirrors ==
    (topo = "zip" /\ Quiescent) =>
        \A k \in Keys :
            inner[k] = IF store["A"][k] = None /\ store["B"][k] = None THEN None
                       ELSE Some(<<store["A"][k], store["B"][k]>>)


\* C12: when the wait inside S.get returns on a materialization S of
\* F = T.filter(p), with no write call in progress, F.get(k) and the value S
\* holds are both T.get(k).filter(p), for every key k.
C12_FilterAfterWait ==
    [][(topo = "filter" /\ thr["r"].pc = "check" /\ thr'["r"].pc = "read"
            /\ WritersIdle)
         => \A k \in Keys :
              LET v == store["A"][k]
                  expected == IF v # None /\ v[1] % 2 = 0 THEN v ELSE None
              IN  Filter_get_ref(k) = expected /\ inner[k] = expected]_vars

\* The same two equalities once every event has been processed.
FilterSettled ==
    (topo = "filter" /\ Quiescent) =>
        \A k \in Keys :
            LET v == store["A"][k]
                expected == IF v # None /\ v[1] % 2 = 0 THEN v ELSE None
            IN  Filter_get_ref(k) = expected /\ inner[k] = expected

\* C13: for M = T.map(f), M.get(k) is T.get(k).map(f) at every moment, and
\* once the events of the writes have been processed every materialization of
\* M holds that value: an overwrite of T[k] replaces the mapped value.
C13_MapMirrors ==
    topo = "map" =>
        \A k \in Keys :
            LET v == store["A"][k]
                expected == IF v = None THEN None ELSE Some(v[1] * v[1])
            IN  /\ Map_get_ref(k) = expected
                /\ Quiescent => inner[k] = expected

\* T[1] was written twice and the materialization holds f of the last value.
C13_Witness ==
    /\ topo = "map" /\ Quiescent /\ nwrites = 2
    /\ store["A"][1] = Some(2) /\ inner[1] = Some(4)

\* ---------------------------------------------------------------------
\* A StableVec under push, extend and remove
\* ---------------------------------------------------------------------
\* One caller owns a StableVec (kept in fwd[0]) and hands it the items 1, 2,
\* ... ; hist[1] is the caller's ledger: the items it has not removed, each
\* with the position push or extend returned for it.  wr["w1"] notes the last
\* call: its name, and in `old` the positions it returned.
InitStableVec ==
    /\ topo = "stable_vec"
    /\ store = [x \in Trees |-> [k \in Keys |-> None]]
    /\ inner = [k \in Keys |-> None]
    /\ SYNCS = <<>>
    /\ source = [s \in Syncs |-> <<>>]
    /\ received = [s \in Syncs |-> 0]
    /\ outgoing = [s \in Syncs |-> 0]
    /\ waiting = [s \in Syncs |-> {}]
    /\ token = [x \in Threads |-> FALSE]
    /\ bus = [r \in Workers |-> <<>>]
    /\ wk = [w \in Workers |-> IdleWorker]
    /\ thr = [x \in Threads |-> IdleThread]
    /\ wr = [w \in Writers |-> IdleWriter]
    /\ nwrites = 0
    /\ hist = [k \in Keys |-> <<>>]
    /\ fwd = [ik \in IKeys |-> IF ik = 0 THEN Some(StableVec_new) ELSE None]
    /\ bwd = [k \in IdxKeys |-> None]

Ledger == hist[1]
RECURSIVE Noted(_, _, _)
Noted(items, indexes, i) ==
    IF i > Len(items) \/ i > Len(indexes) THEN <<>>
    ELSE <<[item |-> items[i], position |-> indexes[i]]>>
         \o Noted(items, indexes, i + 1)

\* let position = sv.push(item);
Caller_push ==
    /\ topo = "stable_vec" /\ wr["w1"].pc = "idle"
    /\ nwrites < MaxItems
    /\ LET r == StableVec_push(Unwrap(fwd[0]), nwrites + 1)
       IN  /\ fwd' = [fwd EXCEPT ![0] = Some(r.sv)]
           /\ hist' = [hist EXCEPT ![1] =
                          IF r.panic THEN @
                          ELSE @ \o Noted(<<nwrites + 1>>, <<r.position>>, 1)]
           /\ wr' = [wr EXCEPT !["w1"] =
                        [pc |-> IF r.panic THEN "panic" ELSE "idle",
                         op |-> "push", tree |-> "A", key |-> 1,
                         value |-> 1, old |-> <<r.position>>]]
    /\ nwrites' = nwrites + 1
    /\ UNCHANGED <<topo, store, inner, SYNCS, source, received, outgoing,
                   waiting, token, bus, wk, thr, bwd>>

\* let positions = sv.extend(items.into_iter());  with n items
Caller_extend(n) ==
    /\ topo = "stable_vec" /\ wr["w1"].pc = "idle"
    /\ nwrites + n <= MaxItems
    /\ LET items == [i \in 1..n |-> nwrites + i]
           r == StableVec_extend(Unwrap(fwd[0]), items)
       IN  /\ fwd' = [fwd EXCEPT ![0] = Some(r.sv)]
           /\ hist' = [hist EXCEPT ![1] = @ \o Noted(items, r.indexes, 1)]
           /\ wr' = [wr EXCEPT !["w1"] =
                        [pc |-> IF r.panic THEN "panic" ELSE "idle",
                         op |-> "extend", tree |-> "A", key |-> 1,
                         value |-> n, old |-> r.indexes]]
    /\ nwrites' = nwrites + n
    /\ UNCHANGED <<topo, store, inner, SYNCS, source, received, outgoing,
                   waiting, token, bus, wk, thr, bwd>>

\* sv.remove(position) of an item the caller holds; BitVec::set panics when
\* the position is not below used.len().
Caller_remove(i) ==
    /\ topo = "stable_vec" /\ wr["w1"].pc = "idle"
    /\ i \in 1..Len(Ledger)
    /\ LET sv == Unwrap(fwd[0])
           position == Ledger[i].position
           panic == position >= Len(sv.used)
       IN  /\ fwd' = [fwd EXCEPT ![0] =
                         IF panic THEN @ ELSE Some(StableVec_remove(sv, position))]
           /\ wr' = [wr EXCEPT !["w1"] =
                        [pc |-> IF panic THEN "panic" ELSE "idle",
                         op |-> "remove", tree |-> "A", key |-> 1,
                         value |-> 1, old |-> <<position>>]]
    /\ hist' = [hist EXCEPT ![1] =
                   SubSeq(@, 1, i - 1) \o SubSeq(@, i + 1, Len(@))]
    /\ UNCHANGED <<topo, store, inner, SYNCS, source, received, outgoing,
                   waiting, token, bus, wk, thr, nwrites, bwd>>

NextStableVec ==
    \/ Caller_push
    \/ \E n \in 1..MaxExtend : Caller_extend(n)
    \/ \E i \in 1..MaxItems : Caller_remove(i)

SpecStableVec == InitStableVec /\ [][NextStableVec]_vars

\* C19: every item the caller holds (its position came from push or extend
\* and it was not removed) is live and stored at that position.
C19_PositionsStable ==
    topo = "stable_vec" =>
        \A i \in 1..Len(Ledger) :
            LET sv == Unwrap(fwd[0])
                p == Ledger[i].position + 1
            IN  /\ p <= Len(sv.used) /\ sv.used[p]
                /\ p <= Len(sv.vec) /\ sv.vec[p] = Ledger[i].item

\* C20: extend returns one position per item; afterwards each returned
\* position is live and holds its item, vacant slots were taken before the
\* vector grew, every slot that was live still holds its item, and `vec` and
\* `used` have the same length.
C20_Extend ==
    [][(topo = "stable_vec" /\ nwrites' # nwrites /\ wr'["w1"].op = "extend")
        => LET pre == Unwrap(fwd[0])
               post == Unwrap(fwd'[0])
               n == nwrites' - nwrites
               positions == wr'["w1"].old
               vacant == Len(pre.used) - StableVec_len(pre)
           IN  /\ Len(positions) = n
               /\ \A i \in 1..n :
                     /\ positions[i] + 1 <= Len(post.used)
                     /\ post.used[positions[i] + 1]
                     /\ positions[i] + 1 <= Len(post.vec)
                     /\ post.vec[positions[i] + 1] = nwrites + i
               /\ Len(post.used) = Len(pre.used)
                                     + (IF n > vacant THEN n - vacant ELSE 0)
               /\ \A p \in 1..Len(pre.used) :
                     pre.used[p] => post.used[p] /\ post.vec[p] = pre.vec[p]
               /\ Len(post.vec) = Len(post.used)]_vars

\* ---------------------------------------------------------------------
\* The readers of a bus
\* ---------------------------------------------------------------------
\* The i-th write is a.insert(1, i), so every event tells which write it is
\* of.  A reader's record keeps, for the statements, the events it received
\* and in `since` the number of events the tree had sent when it was created.
NoReader == [pc |-> "none", events |-> <<>>, since |-> 0]
\* The events tree A has sent so far.
Sent ==
    nwrites - (IF wr["w1"].pc \in {"outgoing", "inner", "send"} THEN 1 ELSE 0)

\* The state after: a = open_tree; V = a.map(f); no bus is built.  In
\* "bus_full": a = open_tree; u1 = a.watch().
InitBus(t) ==
    /\ topo = t
    /\ store = [x \in Trees |-> [k \in Keys |-> None]]
    /\ inner = [k \in Keys |-> None]
    /\ SYNCS = <<"A">>
    /\ source = [s \in Syncs |-> IF s = "V" /\ t = "bus" THEN <<"A">> ELSE <<>>]
    /\ received = [s \in Syncs |-> 0]
    /\ outgoing = [s \in Syncs |-> 0]
    /\ waiting = [s \in Syncs |-> {}]
    /\ token = [x \in Threads |-> FALSE]
    /\ bus = [r \in Workers |-> <<>>]
    /\ wk = [w \in Workers |->
                IF t = "bus_full" /\ w = "u1"
                THEN [pc |-> "recv", events |-> <<>>, since |-> 0]
                ELSE NoReader]
    /\ thr = [x \in Threads |-> IdleThread]
    /\ wr = [w \in Writers |-> IdleWriter]
    /\ nwrites = 0
    /\ hist = [k \in Keys |-> <<>>]
    /\ fwd = [ik \in IKeys |-> None]
    /\ bwd = [k \in IdxKeys |-> None]

\* a.watch() / V.watch(): Watcher::new_reader builds the bus when it is the
\* first reader and adds a reader.  The builder of V's bus spawns V's worker
\* on a reader of A's bus.
Watcher_new_reader(u) ==
    /\ topo = "bus"
    /\ wk[u].pc = "none"
    /\ wk' = [w \in Workers |->
                 IF w = u THEN [pc |-> "recv", events |-> <<>>, since |-> Sent]
                 ELSE IF u = "u3" /\ w = "wa" THEN IdleWorker
                 ELSE wk[w]]
    /\ bus' = [r \in Workers |->
                  IF r = u THEN add_rx(ReadsFrom(u))
                  ELSE IF u = "u3" /\ r = "wa" THEN add_rx("A")
                  ELSE bus[r]]
    /\ UNCHANGED <<topo, store, inner, SYNCS, source, received, outgoing,
                   waiting, token, thr, wr, nwrites, hist, fwd, bwd>>

\* reader.recv() by the thread that holds the reader.
Reader_recv(u) ==
    /\ topo \in BusTopos
    /\ wk[u].pc = "recv"
    /\ bus[u] # <<>>
    /\ bus' = [bus EXCEPT ![u] = Tail(@)]
    /\ wk' = [wk EXCEPT ![u].events = Append(@, Head(bus[u]))]
    /\ UNCHANGED <<topo, store, inner, SYNCS, source, received, outgoing,
                   waiting, token, thr, wr, nwrites, hist, fwd, bwd>>

NextBus ==
    \/ Tree_call("w1", "insert", "A", 1, nwrites + 1)
    \/ Tree_outgoing("w1")
    \/ Tree_inner("w1")
    \/ Tree_send("w1")
    \/ \E u \in Readers : Watcher_new_reader(u)
    \/ \E u \in Readers : Reader_recv(u)
    \/ Worker_recv("wa")
    \/ Worker_received("wa")
    \/ Worker_wake("wa")
    \/ Worker_outgoing("wa")
    \/ Worker_broadcast("wa")

SpecBus == (\E t \in BusTopos : InitBus(t)) /\ [][NextBus]_vars

\* What reader u received and what waits for it, oldest first.
Stream(u) == wk[u].events \o bus[u]
\* The events broadcast on the bus u reads, after the first `since` writes:
\* the tree's are the writes themselves, the stage's their squares as far as
\* the worker has broadcast them.
Broadcasts(u) ==
    IF u = "u3"
    THEN LET n == outgoing["V"] - (IF wk["wa"].pc = "broadcast" THEN 1 ELSE 0)
         IN  [i \in 1..n |->
                 [type |-> "Insert", key |-> 1,
                  value |-> (wk[u].since + i) * (wk[u].since + i)]]
    ELSE [i \in 1..(Sent - wk[u].since) |->
             [type |-> "Insert", key |-> 1, value |-> wk[u].since + i]]

\* C16: a reader receives every event broadcast while it exists exactly once
\* and in order, and never has more than the capacity of the bus waiting for
\* it: the sender waits instead.
C16_ExactlyOnce ==
    topo \in BusTopos =>
        \A u \in Readers :
            wk[u].pc # "none" =>
                Stream(u) = Broadcasts(u) /\ Len(bus[u]) <= BusCap

\* The bus is full for its one reader and the tree's next send waits.
C16_Witness ==
    /\ topo = "bus_full" /\ Len(bus["u1"]) = BusCap
    /\ wr["w1"].pc = "send" /\ nwrites = BusCap + 1

\* The write an event is of.
WriteOf(u, ev) ==
    IF u = "u3" THEN CHOOSE i \in 0..ev.value : i * i = ev.value ELSE ev.value

\* C17: a reader never receives an event broadcast before it was created,
\* and the events it receives are those broadcast after.
C17_ColdSubscription ==
    topo = "bus" =>
        \A u \in Readers :
            wk[u].pc # "none" =>
                /\ \A i \in 1..Len(Stream(u)) :
                      WriteOf(u, Stream(u)[i]) > wk[u].since
                /\ {Stream(u)[i] : i \in 1..Len(Stream(u))}
                     = {Broadcasts(u)[i] : i \in 1..Len(Broadcasts(u))}

\* u2 was created after the tree had sent an event that still waits for u1,
\* and has received an event since.
C17_Witness ==
    /\ topo = "bus"
    /\ wk["u1"].pc = "recv" /\ wk["u2"].pc = "recv"
    /\ wk["u1"].since = 0 /\ wk["u2"].since >= 1
    /\ Len(bus["u1"]) >= 2
    /\ Len(wk["u2"].events) >= 1

\* ---------------------------------------------------------------------
\* Building a pipeline on trees that are written to, and rebuild()
\* ---------------------------------------------------------------------
\* The state after: a, b = open_tree.  The program then writes to the trees,
\* creates a stage (and a second one on it), materializes it and calls
\* rebuild(), in this order and with writes in between.
InitRebuild ==
    /\ topo = "tree"
    /\ store = [x \in Trees |-> [k \in Keys |-> None]]
    /\ inner = [k \in Keys |-> None]
    /\ SYNCS = <<"A", "B">>
    /\ source = [s \in Syncs |-> <<>>]
    /\ received = [s \in Syncs |-> 0]
    /\ outgoing = [s \in Syncs |-> 0]
    /\ waiting = [s \in Syncs |-> {}]
    /\ token = [x \in Threads |-> FALSE]
    /\ bus = [r \in Workers |-> <<>>]
    /\ wk = [w \in Workers |-> IdleWorker]
    /\ thr = [x \in Threads |-> IdleThread]
    /\ wr = [w \in Writers |-> IdleWriter]
    /\ nwrites = 0
    /\ hist = [k \in Keys |-> <<>>]
    /\ fwd = [ik \in IKeys |-> None]
    /\ bwd = [k \in IdxKeys |-> None]

\* V = a.map(f), a.filter(p) or a.chain(b): Map::new, Filter::new, Chain::new
\* build the stage's synchronizer from the sources'; the watcher is lazy.
Stage_new(kind) ==
    /\ topo = "tree" /\ WritersIdle
    /\ topo' = IF kind = "map" THEN "cold_map"
               ELSE IF kind = "filter" THEN "cold_filter" ELSE "cold_chain"
    /\ LET srcs == IF kind = "chain" THEN <<"A", "B">> ELSE <<"A">>
       IN  /\ source' = [source EXCEPT !["V"] = srcs]
           /\ received' = [received EXCEPT !["V"] = Synchronizer_from(srcs)]
    /\ UNCHANGED <<store, inner, SYNCS, outgoing, waiting, token, bus, wk,
                   thr, wr, nwrites, hist, fwd, bwd>>

\* W = V.filter(p) on the map stage V.
Filter_new ==
    /\ topo = "cold_map" /\ WritersIdle
    /\ topo' = "cold_mapfilter"
    /\ source' = [source EXCEPT !["W"] = <<"V">>]
    /\ received' = [received EXCEPT !["W"] = Synchronizer_from(<<"V">>)]
    /\ UNCHANGED <<store, inner, SYNCS, outgoing, waiting, token, bus, wk,
                   thr, wr, nwrites, hist, fwd, bwd>>

\* S = V.store(name) (W.store(name) with two stages): open_tree registers the
\* inner tree's synchronizer, Material::new builds S's from the stage's and
\* subscribes, which builds every bus below and spawns the workers.
Material_new ==
    /\ topo \in {"cold_map", "cold_filter", "cold_mapfilter"} /\ WritersIdle
    /\ topo' = IF topo = "cold_map" THEN "map"
               ELSE IF topo = "cold_filter" THEN "filter" ELSE "mapfilter"
    /\ LET from == IF topo = "cold_mapfilter" THEN "W" ELSE "V"
       IN  /\ source' = [source EXCEPT !["S"] = <<from>>]
           /\ received' = [received EXCEPT !["S"] = Synchronizer_from(<<from>>)]
    /\ SYNCS' = Append(SYNCS, "I")
    /\ UNCHANGED <<store, inner, outgoing, waiting, token, bus, wk, thr, wr,
                   nwrites, hist, fwd, bwd>>

Materialized == {"map", "filter", "mapfilter"}

\* S.rebuild(), called when no write is in progress and no event is on its
\* way: self.inner.clear(), an insert into the inner tree per entry of
\* self.from.iter(), self.sync.reset(), self.from.sync().reset().  thr["g"]
\* notes, for the statements, how many times rebuild() was called and how
\* many writes had been made at the last call.
Material_rebuild ==
    /\ topo \in Materialized /\ Quiescent
    /\ thr["g"].idx < MaxRebuilds
    /\ inner' = [k \in Keys |-> View_get_ref(k)]
    /\ LET n == Cardinality({k \in Keys : View_get_ref(k) # None})
           from == source["S"][1]
           reset == [received EXCEPT !["S"] = incoming("S")]
       IN  /\ outgoing' = [outgoing EXCEPT !["I"] = (@ + n) % CounterMod]
           /\ received' = [reset EXCEPT ![from] = incoming(from)]
    /\ thr' = [thr EXCEPT !["g"].idx = @ + 1, !["g"].epoch = nwrites]
    /\ UNCHANGED <<topo, store, SYNCS, source, waiting, token, bus, wk, wr,
                   nwrites, hist, fwd, bwd>>

NextRebuild ==
    \/ \E op \in {"insert", "remove"}, t \in Trees, k \in Keys, v \in Vals :
          Tree_call("w1", op, t, k, v)
    \/ Tree_outgoing("w1")
    \/ Tree_inner("w1")
    \/ Tree_send("w1")
    \/ \E kind \in {"map", "filter", "chain"} : Stage_new(kind)
    \/ Filter_new
    \/ Material_new
    \/ Material_rebuild
    \/ \E w \in {"wa", "wb", "ls"} : Worker_recv(w)
    \/ \E w \in {"wa", "wb", "ls"} : Worker_received(w)
    \/ \E w \in {"wa", "wb", "ls"} : Worker_wake(w)
    \/ \E w \in {"wa", "wb", "ls"} : Worker_outgoing(w)
    \/ \E w \in {"wa", "wb", "ls"} : Worker_broadcast(w)

SpecRebuild == InitRebuild /\ [][NextRebuild]_vars

\* The entry of key k derived from the base tree by the pipeline.
Derived(k) ==
    LET v == store["A"][k]
    IN  CASE topo = "map" -> IF v = None THEN None ELSE Some(v[1] * v[1])
          [] topo = "filter" -> IF v # None /\ v[1] % 2 = 0 THEN v ELSE None
          [] topo = "mapfilter" ->
                IF v # None /\ (v[1] * v[1]) % 2 = 0 THEN Some(v[1] * v[1])
                ELSE None
          [] OTHER -> None

\* C14: when rebuild() returns, the materialization holds exactly the entries
\* derived from the source's contents, and it is in sync.
C14_RebuildInSync ==
    [][(topo \in Materialized /\ thr'["g"].idx = thr["g"].idx + 1)
         => (\A k \in Keys : inner'[k] = Derived(k)) /\ is_sync("S")']_vars

\* The synchronizer created by the construction step that leads to pipeline t.
Created(t) ==
    CASE t \in {"cold_map", "cold_filter", "cold_chain"} -> "V"
      [] t = "cold_mapfilter" -> "W"
      [] OTHER -> "S"

\* C18: the synchronizer Synchronizer::from builds starts with `received`
\* equal to the sum of its sources' outgoing counters, and when every source
\* is in sync at that moment it is in sync at once.
C18_FromStartsInSync ==
    [][\A new \in {"V", "W", "S"} :
          (topo' # topo /\ new = Created(topo'))
          => LET srcs == source'[new]
                 sum == IF Len(srcs) = 1 THEN outgoing[srcs[1]]
                        ELSE (outgoing[srcs[1]] + outgoing[srcs[2]]) % CounterMod
             IN  /\ received'[new] = sum
                 /\ (\A i \in 1..Len(srcs) : is_sync(srcs[i]))
                        => is_sync(new)']_vars

\* V = a.chain(b) was created after a write to each tree.
C18_Witness ==
    /\ topo = "cold_chain"
    /\ outgoing["A"] = 1 /\ outgoing["B"] = 1
    /\ received["V"] = 2 /\ is_sync("V")

\* Material: a second rebuild() right after the first (no write in between)
\* leaves the inner store and the synchronizers of the materialization and of
\* its source as they were.
MaterialRebuildTwice ==
    [][(topo \in Materialized /\ thr["g"].idx >= 1 /\ thr["g"].epoch = nwrites
            /\ thr'["g"].idx = thr["g"].idx + 1)
         => /\ inner' = inner
            /\ received' = received
            /\ \A x \in {"S", "V", "W"} : outgoing'[x] = outgoing[x]]_vars

\* ---------------------------------------------------------------------
\* MaterialIndex::rebuild
\* ---------------------------------------------------------------------
\* tree.index(|k, v| vec![k % 2, v % 2]): an indexer that files a source key
\* under two indexed keys.
tagger(k, v) == <<k % 2, v % 2>>

\* The state after: a = open_tree of a database with any contents;
\* MI = MaterialIndex::new(a.index(tagger), Loaded::new(), Loaded::new()),
\* the first statements of load(), which then calls rebuild().
InitReindex ==
    /\ topo = "reindex"
    /\ store \in [Trees -> [IdxKeys -> Options]]
    /\ \A k \in IdxKeys : store["B"][k] = None
    /\ inner = [k \in Keys |-> None]
    /\ SYNCS = <<"A">>
    /\ source = [s \in Syncs |-> IF s = "V" THEN <<"A">> ELSE <<>>]
    /\ received = [s \in Syncs |-> 0]
    /\ outgoing = [s \in Syncs |-> 0]
    /\ waiting = [s \in Syncs |-> {}]
    /\ token = [x \in Threads |-> FALSE]
    /\ bus = [r \in Workers |-> <<>>]
    /\ wk = [w \in Workers |-> IdleWorker]
    /\ thr = [x \in Threads |-> IdleThread]
    /\ wr = [w \in Writers |-> IdleWriter]
    /\ nwrites = 0
    /\ hist = [k \in Keys |-> <<>>]
    /\ fwd = [ik \in IKeys |-> None]
    /\ bwd = [k \in IdxKeys |-> None]

\* The orders in which a HashMap over the indexed keys may hand out its
\* entries: every one, and not the same from one HashMap to the next.
Orders ==
    {q \in [1..Cardinality(IKeys) -> IKeys] :
        \A a, b \in 1..Cardinality(IKeys) : a # b => q[a] # q[b]}

\* for i in entries { map.entry(i).or_insert_with(Vec::new).push(k.clone()) }
Grouped(entries, k) ==
    [ik \in IKeys |->
        [j \in 1..Cardinality({j \in 1..Len(entries) : entries[j] = ik}) |-> k]]

\* for (k, v) in map.into_iter(), in the order ord: extend the fwd entry of
\* the indexed key with the group, and bwd's keys with the positions.
RECURSIVE RebuildGroups(_, _, _)
RebuildGroups(st, groups, ord) ==
    IF ord = <<>> THEN st
    ELSE LET ik == Head(ord)
             values == StableVec_extend(fwd_get_or_default(st.fwd, ik), groups[ik])
             indexes == values.indexes
             keys == StableVec_extend(st.keys,
                                      [j \in 1..Len(indexes) |-> <<ik, indexes[j]>>])
         IN  IF groups[ik] = <<>> THEN RebuildGroups(st, groups, Tail(ord))
             ELSE RebuildGroups([fwd |-> [st.fwd EXCEPT ![ik] = Some(Put(values.sv))],
                                 keys |-> keys.sv],
                                groups, Tail(ord))

\* for res in self.from.from.iter(): the entries of the source from key k on.
RECURSIVE RebuildFrom(_, _, _)
RebuildFrom(st, k, ord) ==
    IF k > NumIdxKeys THEN st
    ELSE IF store["A"][k] = None THEN RebuildFrom(st, k + 1, ord)
    ELSE LET entries == tagger(k, Unwrap(store["A"][k]))
             r == RebuildGroups([fwd |-> st.fwd, keys |-> StableVec_new],
                                Grouped(entries, k), ord[k])
         IN  RebuildFrom([fwd |-> r.fwd,
                          bwd |-> [st.bwd EXCEPT ![k] = Some(Put(r.keys))]],
                         k + 1, ord)

\* MI.rebuild(): fwd.clear(), bwd.clear(), the loop over the source,
\* self.sync.reset().  ord[k] is the order of the HashMap built for source
\* key k.  thr["g"] notes how many times rebuild() was called.
MaterialIndex_rebuild(ord) ==
    /\ topo = "reindex"
    /\ thr["g"].idx < MaxRebuilds
    /\ LET r == RebuildFrom([fwd |-> [ik \in IKeys |-> None],
                             bwd |-> [k \in IdxKeys |-> None]], 1, ord)
       IN  fwd' = r.fwd /\ bwd' = r.bwd
    /\ received' = [received EXCEPT !["V"] = incoming("V")]
    /\ thr' = [thr EXCEPT !["g"].idx = @ + 1, !["g"].epoch = nwrites]
    /\ UNCHANGED <<topo, store, inner, SYNCS, source, outgoing, waiting,
                   token, bus, wk, wr, nwrites, hist>>

NextReindex ==
    \/ \E ord \in [IdxKeys -> Orders] : MaterialIndex_rebuild(ord)
    \/ \E ik \in IKeys : MaterialIndex_get_call("r", ik)
    \/ wait_check("r")
    \/ MaterialIndex_get_read("r")

SpecReindex == InitReindex /\ [][NextReindex]_vars

\* C15: a second rebuild() right after the first leaves fwd and bwd, slot
\* positions included, and the synchronizer counters as they were.
C15_RebuildTwice ==
    [][(topo = "reindex" /\ thr["g"].idx >= 1
            /\ thr'["g"].idx = thr["g"].idx + 1)
         => /\ fwd' = fwd /\ bwd' = bwd
            /\ received' = received /\ outgoing' = outgoing]_vars

\* ---------------------------------------------------------------------
\* A StableVec kept in a Tree: written with serialize, read with deserialize
\* ---------------------------------------------------------------------
\* tree.insert(k, sv); sv = tree.get(k).unwrap(): the caller goes on with the
\* vector it reads back.
StableVec_reload ==
    /\ topo = "stable_vec" /\ wr["w1"].pc = "idle"
    /\ wr["w1"].op # "reload"
    /\ fwd' = [fwd EXCEPT ![0] =
                  Some(StableVec_deserialize(StableVec_serialize(Unwrap(@))))]
    /\ wr' = [wr EXCEPT !["w1"].op = "reload"]
    /\ UNCHANGED <<topo, store, inner, SYNCS, source, received, outgoing,
                   waiting, token, bus, wk, thr, nwrites, hist, bwd>>

NextStoredVec ==
    \/ NextStableVec
    \/ StableVec_reload

SpecStoredVec == InitStableVec /\ [][NextStoredVec]_vars

\* C21: the vector read back has the slots, the occupancy and the items of
\* the vector written, whatever the number of slots.
C21_RoundTrip ==
    [][(topo = "stable_vec" /\ wr'["w1"].op = "reload" /\ wr["w1"].op # "reload")
         => fwd'[0] = fwd[0]]_vars

\* ---------------------------------------------------------------------
\* Writing through a FilterReducer
\* ---------------------------------------------------------------------
\* tree.filter_reducer(|prev, take| if prev > take Some(prev - take) else None)
take(prev, m) == IF prev # None /\ prev[1] > m THEN Some(prev[1] - m) ELSE None

\* The state after: a = open_tree of a database with any contents;
\* FR = a.filter_reducer(take).  Nothing has subscribed to a.  hist[k] starts
\* with what the tree holds under k.
InitFilterReducer ==
    /\ topo = "tree"
    /\ store \in [Trees -> [Keys -> Options]]
    /\ \A k \in Keys : store["B"][k] = None
    /\ inner = [k \in Keys |-> None]
    /\ SYNCS = <<"A", "B">>
    /\ source = [s \in Syncs |-> <<>>]
    /\ received = [s \in Syncs |-> 0]
    /\ outgoing = [s \in Syncs |-> 0]
    /\ waiting = [s \in Syncs |-> {}]
    /\ token = [x \in Threads |-> FALSE]
    /\ bus = [r \in Workers |-> <<>>]
    /\ wk = [w \in Workers |-> IdleWorker]
    /\ thr = [x \in Threads |-> IdleThread]
    /\ wr = [w \in Writers |-> IdleWriter]
    /\ nwrites = 0
    /\ hist = [k \in Keys |->
                 IF store["A"][k] = None THEN <<>>
                 ELSE <<[op |-> "put", value |-> Unwrap(store["A"][k])]>>]
    /\ fwd = [ik \in IKeys |-> None]
    /\ bwd = [k \in IdxKeys |-> None]

\* FilterReducer::insert_owned(key, value), the call.
FilterReducer_insert_owned(w, k, m) ==
    /\ topo = "tree"
    /\ wr[w].pc = "idle"
    /\ nwrites < MaxWrites
    /\ wr' = [wr EXCEPT ![w] = [pc |-> "get", op |-> "insert", tree |-> "A",
                                key |-> k, value |-> m, old |-> None]]
    /\ nwrites' = nwrites + 1
    /\ hist' = [hist EXCEPT ![k] = Append(@, [op |-> "insert", value |-> m])]
    /\ UNCHANGED <<topo, store, inner, SYNCS, source, received, outgoing,
                   waiting, token, bus, wk, thr, fwd, bwd>>

\* let v = self.from.get_ref(&key)?; let v = (self.reducer)(v, value); then
\* self.from.insert_owned(key, v) or self.from.remove_owned(key) follows,
\* step by step as in the tree.
FilterReducer_get(w) ==
    /\ topo = "tree"
    /\ wr[w].pc = "get"
    /\ LET v == Tree_get_ref(wr[w].tree, wr[w].key)
           r == take(v, wr[w].value)
       IN  wr' = [wr EXCEPT ![w].pc = "outgoing", ![w].old = v,
                            ![w].op = IF r = None THEN "remove" ELSE "insert",
                            ![w].value = IF r = None THEN 1 ELSE Unwrap(r)]
    /\ UNCHANGED <<topo, store, inner, SYNCS, source, received, outgoing,
                   waiting, token, bus, wk, thr, nwrites, hist, fwd, bwd>>

FilterReducer_thread(w) ==
    \/ \E k \in Keys, m \in Vals : FilterReducer_insert_owned(w, k, m)
    \/ FilterReducer_get(w)
    \/ \E k \in Keys : Reducer_remove(w, k)
    \/ Tree_outgoing(w)
    \/ Tree_inner(w)
    \/ Tree_send(w)

NextFilterReducer == FilterReducer_thread("w1") \/ FilterReducer_thread("w2")
SpecFilterReducer == InitFilterReducer /\ [][NextFilterReducer]_vars

\* What the calls of h leave under a key when they take effect one after the
\* other.
RECURSIVE Taken(_)
Taken(h) ==
    IF h = <<>> THEN None
    ELSE LET last == h[Len(h)]
             prev == Taken(SubSeq(h, 1, Len(h) - 1))
         IN  CASE last.op = "put" -> Some(last.value)
               [] last.op = "remove" -> None
               [] OTHER -> take(prev, last.value)

\* C22: when two calls through FR for the same key, one of them at least an
\* insert, have both returned, the tree holds what the two calls leave when
\* they take effect one after the other, in one order or the other.
C22_FilterReducerAtomic ==
    \A k \in Keys :
        LET h == hist[k]
            n == Len(h)
        IN  (WritersIdle /\ nwrites = 2 /\ n >= 2 /\ h[n - 1].op # "put")
            => store["A"][k] \in
                   {Taken(h),
                    Taken(SubSeq(h, 1, n - 2) \o <<h[n], h[n - 1]>>)}

\* ---------------------------------------------------------------------
\* Callbacks that return an error
\* ---------------------------------------------------------------------
\* reader.recv() and cb(event) where cb returns Err: in Zip's callbacks
\* b.get_ref(&key)? (a.get_ref(&key)?) fails before an event is made, in
\* Material's listener inner.insert_ref(..)? (inner.remove_ref(..)?) fails
\* and the inner tree is left as it was.  hist[1] notes the workers whose
\* callback failed, one entry per failure.
Worker_fail(w) ==
    /\ topo = "zip"
    /\ wk[w].pc = "recv"
    /\ bus[w] # <<>>
    /\ bus' = [bus EXCEPT ![w] = Tail(@)]
    /\ wk' = [wk EXCEPT ![w] = [pc |-> "failed", events |-> <<>>]]
    /\ hist' = [hist EXCEPT ![1] = Append(@, w)]
    /\ UNCHANGED <<topo, store, inner, SYNCS, source, received, outgoing,
                   waiting, token, thr, wr, nwrites, fwd, bwd>>

\* A worker that acknowledges only the events its callback handled.
Worker_unacknowledged(w) ==
    /\ wk[w].pc = "failed"
    /\ wk' = [wk EXCEPT ![w].pc = "failed_wake"]
    /\ UNCHANGED <<topo, store, inner, SYNCS, source, received, outgoing,
                   waiting, token, bus, thr, wr, nwrites, hist, fwd, bwd>>

\* synchronizer.received() after a failed callback: self.received.fetch_add(1).
Worker_failed_received(w) ==
    /\ wk[w].pc = "failed"
    /\ received' = [received EXCEPT ![SyncOf(w)] = (@ + 1) % CounterMod]
    /\ wk' = [wk EXCEPT ![w].pc = "failed_wake"]
    /\ UNCHANGED <<topo, store, inner, SYNCS, source, outgoing, waiting,
                   token, bus, thr, wr, nwrites, hist, fwd, bwd>>

\* ... if is_sync, drain waiting and unpark; then match: Err(e) => eprint!,
\* and the loop goes back to reader.recv().
Worker_failed_wake(w) ==
    /\ wk[w].pc = "failed_wake"
    /\ IF is_sync(SyncOf(w))
       THEN /\ token' = [x \in Threads |->
                            IF x \in waiting[SyncOf(w)] THEN TRUE ELSE token[x]]
            /\ waiting' = [waiting EXCEPT ![SyncOf(w)] = {}]
       ELSE UNCHANGED <<token, waiting>>
    /\ wk' = [wk EXCEPT ![w].pc = "recv"]
    /\ UNCHANGED <<topo, store, inner, SYNCS, source, received, outgoing,
                   bus, thr, wr, nwrites, hist, fwd, bwd>>

\* S = a.zip(b).store(name), written to by one thread and read by another,
\* with callbacks that may fail.
NextFailing ==
    \/ \E op \in {"insert", "remove"}, t \in Trees, k \in Keys, v \in Vals :
          Tree_call("w1", op, t, k, v)
    \/ Tree_outgoing("w1")
    \/ Tree_inner("w1")
    \/ Tree_send("w1")
    \/ \E w \in Workers : Worker_recv(w)
    \/ \E w \in Workers : Worker_received(w)
    \/ \E w \in Workers : Worker_wake(w)
    \/ \E w \in Workers : Worker_outgoing(w)
    \/ \E w \in Workers : Worker_broadcast(w)
    \/ \E w \in Workers : Worker_fail(w)
    \/ \E w \in Workers : Worker_failed_received(w)
    \/ \E w \in Workers : Worker_failed_wake(w)
    \/ \E k \in Keys : Material_get_call("r", k)
    \/ wait_check("r")
    \/ wait_push("r")
    \/ wait_park("r")
    \/ Material_get_read("r")

SpecFailing == InitTopo("zip") /\ [][NextFailing]_vars

\* The failed callbacks of the workers W so far.
Failed(W) == Cardinality({i \in 1..Len(hist[1]) : hist[1][i] \in W})

\* C23: when every write has returned and every worker has nothing left to
\* do, the stage has acknowledged every event of the trees, failed or not,
\* and counted and broadcast one event for each that did not fail; the
\* Material has acknowledged each of those and counted those that did not
\* fail; and the Material is in sync.
C23_FailedCallback ==
    (topo = "zip" /\ Quiescent) =>
        /\ received["V"] = nwrites
        /\ outgoing["V"] = nwrites - Failed({"wa", "wb"})
        /\ received["S"] = outgoing["V"]
        /\ outgoing["S"] = received["S"] - Failed({"ls"})
        /\ is_sync("S")
\* a.insert twice: one event failed in the stage's callback, the other went
\* through to the Material, whose listener failed on none.
C23_Witness ==
    /\ topo = "zip" /\ Quiescent /\ nwrites = 2 /\ outgoing["A"] = 2
    /\ hist[1] = <<"wa">>
    /\ received["V"] = 2 /\ outgoing["V"] = 1 /\ outgoing["S"] = 1
    /\ inner[1] = Some(<<Some(1), None>>)

\* ---------------------------------------------------------------------
\* MaterialIndex::iter
\* ---------------------------------------------------------------------
\* let iter = self.fwd.iter(); and, per entry, the values of its keys from
\* the source: there is no self.sync.wait().  The thread reads all of it in
\* one step and keeps, per indexed key of fwd, the values it found.
MaterialIndex_iter(t) ==
    /\ topo \in IndexTopos
    /\ thr[t].pc = "idle"
    /\ thr' = [thr EXCEPT ![t].result =
                  Some([ik \in {x \in IKeys : fwd[x] # None} |->
                           values_from_keys(
                               StableVec_into_vec(Get(Unwrap(fwd[ik]))))]),
                          ![t].target = "FWD"]
    /\ UNCHANGED <<topo, store, inner, SYNCS, source, received, outgoing,
                   waiting, token, bus, wk, wr, nwrites, hist, fwd, bwd>>

NextIndexIter ==
    \/ NextIndex
    \/ MaterialIndex_iter("r")

SpecIndexIter == (\E t \in IndexTopos : InitIndex(t)) /\ [][NextIndexIter]_vars

\* C24: a read of the materialized index that takes place when every write
\* has returned finds no event left to be processed: the worker has received
\* every event and is back at reader.recv().
C24_ReadsWaitFirst ==
    [][(topo \in IndexTopos /\ thr["r"].pc = "idle" /\ thr'["r"].pc = "idle"
            /\ thr'["r"] # thr["r"] /\ WritersIdle)
         => bus["wa"] = <<>> /\ wk["wa"].pc \in {"recv", "dead"}]_vars

\* ---------------------------------------------------------------------
\* Operate::pipe
\* ---------------------------------------------------------------------
\* The state after: a, b = open_tree, a written to or not; u1 = a.watch();
\* a.pipe(b): b.sync().push_source(a.sync()) and the listener on a's bus.
\* b's synchronizer keeps the `received` it had.
InitPipe ==
    /\ topo = "pipe"
    /\ store \in [Trees -> [Keys -> Options]]
    /\ \A k \in Keys : store["B"][k] = None
    /\ inner = [k \in Keys |-> None]
    /\ SYNCS = <<"A", "B">>
    /\ source = [s \in Syncs |-> IF s = "B" THEN <<"A">> ELSE <<>>]
    /\ received = [s \in Syncs |-> 0]
    /\ outgoing = [s \in Syncs |->
                     IF s = "A"
                     THEN Cardinality({k \in Keys : store["A"][k] # None})
                     ELSE 0]
    /\ waiting = [s \in Syncs |-> {}]
    /\ token = [x \in Threads |-> FALSE]
    /\ bus = [r \in Workers |-> <<>>]
    /\ wk = [w \in Workers |-> IdleWorker]
    /\ thr = [x \in Threads |-> IdleThread]
    /\ wr = [w \in Writers |-> IdleWriter]
    /\ nwrites = 0
    /\ hist = [k \in Keys |-> <<>>]
    /\ fwd = [ik \in IKeys |-> None]
    /\ bwd = [k \in IdxKeys |-> None]

\* reader.recv() and the callback of the pipe: other.insert_ref(key, value)
\* or other.remove_ref(key), which count in b's outgoing and write b's store
\* (nothing has subscribed to b); the callback returns Ok(0).  hist[1] notes
\* the events applied to b, in order.
Pipe_recv(w) ==
    /\ topo = "pipe" /\ w = "wa"
    /\ wk[w].pc = "recv"
    /\ bus[w] # <<>>
    /\ bus' = [bus EXCEPT ![w] = Tail(@)]
    /\ LET ev == Head(bus[w])
       IN  /\ store' = [store EXCEPT !["B"][ev.key] =
                           IF ev.type = "Insert" THEN Some(ev.value) ELSE None]
           /\ hist' = [hist EXCEPT ![1] = Append(@, ev)]
    /\ outgoing' = [outgoing EXCEPT !["B"] = (@ + 1) % CounterMod]
    /\ wk' = [wk EXCEPT ![w] = [pc |-> "received", events |-> <<>>]]
    /\ UNCHANGED <<topo, inner, SYNCS, source, received, waiting, token,
                   thr, wr, nwrites, fwd, bwd>>

\* One thread writes to a; another calls wait_all(), which waits on a's
\* synchronizer and then on b's.
NextPipe ==
    \/ \E op \in {"insert", "remove"}, k \in Keys, v \in Vals :
          Tree_call("w1", op, "A", k, v)
    \/ Tree_outgoing("w1")
    \/ Tree_inner("w1")
    \/ Tree_send("w1")
    \/ Pipe_recv("wa")
    \/ Worker_received("wa")
    \/ Worker_wake("wa")
    \/ Worker_outgoing("wa")
    \/ wait_all_call("g")
    \/ wait_check("g")
    \/ wait_push("g")
    \/ wait_park("g")
    \/ wait_all_return("g")

SpecPipe == InitPipe /\ [][NextPipe]_vars

\* C25: the events applied to b are the events a has broadcast since the
\* pipe was made, each once and in that order, as far as the listener has
\* got; b's outgoing counts one per event applied and nothing more; and when
\* b.wait() returns, every event a has broadcast has been applied.
C25_Pipe ==
    [][topo = "pipe" =>
        /\ Len(hist'[1]) <= Len(bus'["u1"])
        /\ hist'[1] = SubSeq(bus'["u1"], 1, Len(hist'[1]))
        /\ outgoing'["B"] = Len(hist'[1])
        /\ (thr["g"].target = "B" /\ thr["g"].pc = "check"
                /\ thr'["g"].pc = "done")
           => /\ hist[1] = bus["u1"]
              /\ \A k \in Keys :
                    (\E i \in 1..Len(hist[1]) : hist[1][i].key = k)
                    => store["B"][k] =
                         LET last == CHOOSE i \in 1..Len(hist[1]) :
                                        /\ hist[1][i].key = k
                                        /\ \A j \in (i + 1)..Len(hist[1]) :
                                              hist[1][j].key # k
                         IN  IF hist[1][last].type = "Insert"
                             THEN Some(hist[1][last].value) ELSE None]_vars
\* b.wait() has returned after two writes to a were piped to b.
C25_Witness ==
    /\ topo = "pipe" /\ thr["g"].pc = "done" /\ thr["g"].target = "B"
    /\ Len(hist[1]) = 2 /\ hist[1] = bus["u1"]
    /\ received["B"] = 2 /\ outgoing["B"] = 2
    /\ store["B"][1] = Some(2)

\* ---------------------------------------------------------------------
\* Statements about is_sync
\* ---------------------------------------------------------------------
\* The synchronizers s asks, directly or through others: the pipelines are
\* at most three stages deep.
Direct(s) == {source[s][i] : i \in 1..Len(source[s])}
Upstream(s) ==
    LET u1 == Direct(s)
        u2 == UNION {Direct(x) : x \in u1}
        u3 == UNION {Direct(x) : x \in u2}
    IN  u1 \cup u2 \cup u3
\* s has acknowledged as many events as its direct sources have counted.
Balanced(s) ==
    received[s] =
        CASE Len(source[s]) = 0 -> 0
          [] Len(source[s]) = 1 -> outgoing[source[s][1]]
          [] OTHER -> (outgoing[source[s][1]] + outgoing[source[s][2]]) % CounterMod

C27_UpstreamWakes ==
    [][\A w \in {"wa", "wb"} :
          (topo = "zip" /\ wk[w].pc = "failed_wake" /\ wk'[w].pc = "recv"
              /\ "r" \in waiting["S"] /\ Quiescent' /\ is_sync("S")')
          => token'["r"]]_vars

\* ---------------------------------------------------------------------
\* Two threads writing to one tree
\* ---------------------------------------------------------------------
\* a and S = a.reduce(r).store(name), whose source, bus and synchronizer are
\* a's; both threads call a.insert and a.remove on the tree itself.
Tree_thread(w) ==
    \/ \E op \in {"insert", "remove"}, k \in Keys, v \in Vals :
          Tree_call(w, op, "A", k, v)
    \/ Tree_outgoing(w)
    \/ Tree_inner(w)
    \/ Tree_send(w)

NextWriters == Tree_thread("w1") \/ Tree_thread("w2") \/ Listener
SpecWriters == InitReducer("reduce") /\ [][NextWriters]_vars

\* C28: when both threads' writes have returned and the listener has applied
\* every event, the materialization holds under every key what the tree
\* holds.
C28_EventOrder ==
    (topo = "reduce" /\ Quiescent /\ nwrites = 2) =>
        \A k \in Keys : inner[k] = store["A"][k]

\* C29: when a worker takes from its bus the event of the tree's latest
\* write (no later write to that tree has begun), the tree's store already
\* shows that write: the value of an Insert, nothing for a Remove.
C29_StoreBeforeEvent ==
    [][\A w \in {"wa", "wb"} :
          LET T == IF w = "wa" THEN "A" ELSE "B"
              ev == Head(bus[w])
          IN  (/\ topo \in {"map", "filter", "chain", "zip"}
               /\ wk[w].pc = "recv" /\ wk'[w].pc = "received"
               /\ Len(bus[w]) = 1
               /\ \/ WritersIdle
                  \/ wr["w1"].tree # T
                  \/ wr["w1"].op = "remove" /\ wr["w1"].pc = "inner")
              => store[T][ev.key] = IF ev.type = "Insert" THEN Some(ev.value)
                                     ELSE None]_vars

\* C30: a Material made of a map stage that was created before some writes, and
\* not rebuilt, is in sync whenever no write is in progress and no worker
\* has anything left to do, so that the wait of S.get(k) returns.
C30_ColdStageReadable ==
    (topo = "map" /\ thr["g"].idx = 0 /\ Quiescent) => is_sync("S")

\* ---------------------------------------------------------------------
\* rebuild() while the pipeline is running
\* ---------------------------------------------------------------------
\* S.rebuild() called by a thread while a write is in progress or an event
\* is on its way; nothing in rebuild() holds the writers or the workers back.
\* The thread runs it through without another thread taking a step.
Material_rebuild_running ==
    /\ topo \in Materialized /\ ~Quiescent
    /\ thr["g"].idx < MaxRebuilds
    /\ inner' = [k \in Keys |-> View_get_ref(k)]
    /\ LET n == Cardinality({k \in Keys : View_get_ref(k) # None})
           from == source["S"][1]
           reset == [received EXCEPT !["S"] = incoming("S")]
       IN  /\ outgoing' = [outgoing EXCEPT !["I"] = (@ + n) % CounterMod]
           /\ received' = [reset EXCEPT ![from] = incoming(from)]
    /\ thr' = [thr EXCEPT !["g"].idx = @ + 1, !["g"].epoch = nwrites]
    /\ UNCHANGED <<topo, store, SYNCS, source, waiting, token, bus, wk, wr,
                   nwrites, hist, fwd, bwd>>

NextRebuildRunning ==
    \/ NextRebuild
    \/ Material_rebuild_running

SpecRebuildRunning == InitRebuild /\ [][NextRebuildRunning]_vars

\* C31: once the writes have stopped and every worker has nothing left to
\* do, the materialization has acknowledged exactly what its source has
\* counted, whether rebuild() ran in between or not.
C31_RebuildWhileRunning ==
    (topo \in Materialized /\ Quiescent) => Balanced("S")

\* ---------------------------------------------------------------------
\* Statements about the order of a worker's steps
\* ---------------------------------------------------------------------
\* The events the stage has broadcast so far: those its Material has
\* acknowledged, has taken and not yet acknowledged, or has on its bus.
Delivered ==
    received["S"] + Len(bus["ls"]) + (IF wk["ls"].pc = "received" THEN 1 ELSE 0)
\* The events a stage worker holds and is about to broadcast.
Held(w) == IF wk[w].pc = "broadcast" THEN Len(wk[w].events) ELSE 0
\* The events the trees have counted and the stage's workers have not yet
\* acknowledged: counted and not yet sent, on a bus, or taken from it.
Unacknowledged ==
    (IF wr["w1"].pc = "send" \/ (wr["w1"].pc = "inner" /\ wr["w1"].op = "insert")
     THEN 1 ELSE 0)
    + Len(bus["wa"]) + Len(bus["wb"])
    + Cardinality({w \in {"wa", "wb"} : wk[w].pc = "received"})

WatcherOf(u) == IF u = "u1" THEN "A" ELSE "V"
\* Watcher.init is None.
Watcher_taken(X) ==
    \E i \in 1..Len(hist[1]) : hist[1][i] = [watcher |-> X, step |-> "take"]
\* Watcher.bus is Some.
Watcher_bus(X) ==
    \E i \in 1..Len(hist[1]) : hist[1][i] = [watcher |-> X, step |-> "built"]

\* A Watcher whose cells are not guarded.
Unguarded(X) == TRUE
\* self.bus.lock() succeeds: no other call holds the mutex of Watcher X.  The
\* guard lives until the end of the statement, add_rx() included.
MutexFree(X) ==
    \A r \in Readers :
        WatcherOf(r) = X => wk[r].pc \notin {"locked", "init", "add_rx"}

InitWatcher ==
    /\ topo = "watcher"
    /\ store = [x \in Trees |-> [k \in Keys |-> None]]
    /\ inner = [k \in Keys |-> None]
    /\ SYNCS = <<"A">>
    /\ source = [s \in Syncs |-> IF s = "V" THEN <<"A">> ELSE <<>>]
    /\ received = [s \in Syncs |-> 0]
    /\ outgoing = [s \in Syncs |-> 0]
    /\ waiting = [s \in Syncs |-> {}]
    /\ token = [x \in Threads |-> FALSE]
    /\ bus = [r \in Workers |-> <<>>]
    /\ wk = [w \in Workers |-> NoReader]
    /\ thr = [x \in Threads |-> IdleThread]
    /\ wr = [w \in Writers |-> IdleWriter]
    /\ nwrites = 0
    /\ hist = [k \in Keys |-> <<>>]
    /\ fwd = [ik \in IKeys |-> None]
    /\ bwd = [k \in IdxKeys |-> None]

\* new_reader: self.bus.lock()
Watcher_lock(u) ==
    /\ topo = "watcher"
    /\ wk[u].pc = "none"
    /\ MutexFree(WatcherOf(u))
    /\ wk' = [wk EXCEPT ![u].pc = "locked"]
    /\ UNCHANGED <<topo, store, inner, SYNCS, source, received, outgoing,
                   waiting, token, bus, thr, wr, nwrites, hist, fwd, bwd>>

\* get_or_insert_with: the bus when there is one, else
\* self.init.lock().take().unwrap(), which panics on a thunk already taken.
Watcher_get_or_insert(u) ==
    /\ wk[u].pc = "locked"
    /\ IF Watcher_bus(WatcherOf(u))
       THEN wk' = [wk EXCEPT ![u].pc = "add_rx"] /\ hist' = hist
       ELSE IF Watcher_taken(WatcherOf(u))
       THEN wk' = [wk EXCEPT ![u].pc = "panic"] /\ hist' = hist
       ELSE /\ wk' = [wk EXCEPT ![u].pc = "init"]
            /\ hist' = [hist EXCEPT ![1] =
                   Append(@, [watcher |-> WatcherOf(u), step |-> "take"])]
    /\ UNCHANGED <<topo, store, inner, SYNCS, source, received, outgoing,
                   waiting, token, bus, thr, wr, nwrites, fwd, bwd>>

\* init(): the tree's thunk makes a bus; the stage's thunk makes a bus,
\* calls from.watch() (a whole new_reader on the tree's Watcher, which has
\* to get the tree's mutex) and spawns the worker on that reader.  The bus
\* is stored in the cell when the thunk returns.
Watcher_init(u) ==
    /\ wk[u].pc = "init"
    /\ IF WatcherOf(u) = "A"
       THEN /\ hist' = [hist EXCEPT ![1] =
                   Append(@, [watcher |-> "A", step |-> "built"])]
            /\ wk' = [wk EXCEPT ![u].pc = "add_rx"]
            /\ bus' = bus
       ELSE /\ MutexFree("A")
            /\ IF ~Watcher_bus("A") /\ Watcher_taken("A")
               THEN /\ wk' = [wk EXCEPT ![u].pc = "panic"]
                    /\ UNCHANGED <<hist, bus>>
               ELSE /\ hist' = [hist EXCEPT ![1] =
                           @ \o (IF Watcher_bus("A") THEN <<>>
                                 ELSE <<[watcher |-> "A", step |-> "take"],
                                        [watcher |-> "A", step |-> "built"]>>)
                             \o <<[watcher |-> "V", step |-> "built"],
                                  [watcher |-> "V", step |-> "spawn"]>>]
                    /\ wk' = [wk EXCEPT ![u].pc = "add_rx", !["wa"] = IdleWorker]
                    /\ bus' = [bus EXCEPT !["wa"] = add_rx("A")]
    /\ UNCHANGED <<topo, store, inner, SYNCS, source, received, outgoing,
                   waiting, token, thr, wr, nwrites, fwd, bwd>>

\* .write().add_rx(), and the guard of the mutex is dropped.
Watcher_add_rx(u) ==
    /\ wk[u].pc = "add_rx"
    /\ wk' = [wk EXCEPT ![u] = [pc |-> "recv", events |-> <<>>, since |-> Sent]]
    /\ bus' = [bus EXCEPT ![u] = add_rx(WatcherOf(u))]
    /\ UNCHANGED <<topo, store, inner, SYNCS, source, received, outgoing,
                   waiting, token, thr, wr, nwrites, hist, fwd, bwd>>

\* Watcher::send of the tree: under the mutex, a broadcast when there is a
\* bus and nothing when there is none.
Watcher_send(w) ==
    /\ topo = "watcher"
    /\ wr[w].pc = "send"
    /\ MutexFree("A")
    /\ IF Watcher_bus("A")
       THEN /\ CanBroadcast("A")
            /\ bus' = Broadcast("A", Insert(wr[w].key, wr[w].value))
       ELSE bus' = bus
    /\ wr' = [wr EXCEPT ![w].pc = "idle"]
    /\ UNCHANGED <<topo, store, inner, SYNCS, source, received, outgoing,
                   waiting, token, wk, thr, nwrites, hist, fwd, bwd>>

NextWatcher ==
    \/ Tree_call("w1", "insert", "A", 1, nwrites + 1)
    \/ Tree_outgoing("w1")
    \/ Tree_inner("w1")
    \/ Watcher_send("w1")
    \/ \E u \in Readers : Watcher_lock(u)
    \/ \E u \in Readers : Watcher_get_or_insert(u)
    \/ \E u \in Readers : Watcher_init(u)
    \/ \E u \in Readers : Watcher_add_rx(u)

SpecWatcher == InitWatcher /\ [][NextWatcher]_vars

\* How often the record has the entry.
Times(X, step) ==
    Cardinality({i \in 1..Len(hist[1]) :
                    hist[1][i] = [watcher |-> X, step |-> step]})

\* C33: under every interleaving of watch() and insert on clones the thunk
\* of a Watcher is taken and run at most once, no call panics on a thunk
\* already taken, the stage's worker is spawned at most once, and every
\* reader is attached to the one bus in the cell.
C33_BuildOnce ==
    topo = "watcher" =>
        /\ \A X \in {"A", "V"} : Times(X, "take") <= 1 /\ Times(X, "built") <= 1
        /\ Times("V", "spawn") <= 1
        /\ \A u \in Readers : wk[u].pc # "panic"
        /\ \A u \in Readers :
              wk[u].pc = "recv" => Times(WatcherOf(u), "built") = 1
        /\ wk["wa"].pc # "none" => Times("V", "spawn") = 1 /\ Times("A", "built") = 1
\* Every reader is attached, V's two on a bus built once, and the worker
\* spawned by the thunk has an event of the tree waiting.
C33_Witness ==
    /\ topo = "watcher"
    /\ \A u \in Readers : wk[u].pc = "recv"
    /\ Times("V", "built") = 1 /\ Times("A", "built") = 1
    /\ bus["wa"] # <<>>

\* ---------------------------------------------------------------------
\* The events of a materialized index
\* ---------------------------------------------------------------------
\* C34: for each base event the worker of MI emits at most one event per
\* indexed key and exactly one for each whose stored vector changed: a
\* Remove when the vector was left empty, and then fwd has no entry for it,
\* else an Insert with the values of the keys in the vector, which is what
\* fwd then holds; and outgoing grows by the number of events emitted.
C34_OneEventPerKey ==
    [][/\ (topo \in IndexTopos /\ wk["wa"].pc = "recv" /\ wk'["wa"].pc = "received")
          => LET evs == wk'["wa"].events
                 For(ik) == {i \in DOMAIN evs : evs[i].key = ik}
             IN  \A ik \in IKeys :
                    /\ Cardinality(For(ik)) <= 1
                    /\ fwd'[ik] # fwd[ik] => Cardinality(For(ik)) = 1
                    /\ \A i \in For(ik) :
                          IF evs[i].type = "Remove"
                          THEN fwd'[ik] = None
                          ELSE /\ fwd'[ik] # None
                               /\ ~StableVec_is_empty(Get(Unwrap(fwd'[ik])))
                               /\ evs[i].value = values_from_keys(
                                     StableVec_into_vec(Get(Unwrap(fwd'[ik]))))
       /\ (topo \in IndexTopos /\ wk["wa"].pc = "outgoing" /\ wk'["wa"].pc # "outgoing")
          => outgoing'["V"] = (outgoing["V"] + Len(wk["wa"].events)) % CounterMod
       /\ (topo \in IndexTopos /\ wk["wa"].pc \in {"received", "outgoing"}
             /\ wk'["wa"].pc \in {"received", "outgoing"})
          => wk'["wa"].events = wk["wa"].events /\ outgoing'["V"] = outgoing["V"]
      ]_vars
\* An overwrite moved a source key from one indexed key to another: the
\* worker holds a Remove for the one, whose entry is gone, and an Insert for
\* the other.
C34_Witness ==
    /\ topo \in IndexTopos /\ wk["wa"].pc = "outgoing"
    /\ Len(wk["wa"].events) = 2
    /\ \E i, j \in 1..2 :
          /\ wk["wa"].events[i].type = "Remove"
          /\ fwd[wk["wa"].events[i].key] = None
          /\ wk["wa"].events[j].type = "Insert"
          /\ fwd[wk["wa"].events[j].key] # None

\* The live slots of a StableVec, counted from 1.
Live(sv) == {p \in 1..Len(sv.vec) : p <= Len(sv.used) /\ sv.used[p]}

\* C35: fwd and bwd of a materialized index agree after every event the
\* worker has processed: every live (ik, position) of bwd[k] names a live
\* slot of fwd[ik] that holds k, every live slot of fwd[ik] that holds k is
\* listed in bwd[k], no fwd[ik] is kept empty, and once the worker has
\* processed every event a source key that is not in the tree has no entry
\* in bwd.
C35_FwdBwd ==
    topo \in IndexTopos =>
        /\ \A k \in IdxKeys :
              bwd[k] # None =>
                 LET bk == Get(Unwrap(bwd[k]))
                 IN  \A q \in Live(bk) :
                        LET ik == bk.vec[q][1]
                            pos == bk.vec[q][2]
                        IN  /\ fwd[ik] # None
                            /\ pos + 1 \in Live(Get(Unwrap(fwd[ik])))
                            /\ Get(Unwrap(fwd[ik])).vec[pos + 1] = k
        /\ \A ik \in IKeys :
              fwd[ik] # None =>
                 LET fk == Get(Unwrap(fwd[ik]))
                 IN  /\ ~StableVec_is_empty(fk)
                     /\ \A p \in Live(fk) :
                           LET k == fk.vec[p]
                           IN  /\ bwd[k] # None
                               /\ \E q \in Live(Get(Unwrap(bwd[k]))) :
                                     Get(Unwrap(bwd[k])).vec[q] = <<ik, p - 1>>
        /\ (WritersIdle /\ wk["wa"].pc = "recv" /\ bus["wa"] = <<>>)
              => \A k \in IdxKeys : store["A"][k] = None => bwd[k] = None

\* C36: a pipe made on a tree that was written to before leaves b able to
\* get in sync: once every event broadcast since the pipe was made (one at
\* least) has been applied, b's synchronizer is in sync and a wait on it
\* returns.
C36_PipeAfterWrites ==
    (topo = "pipe" /\ WritersIdle /\ nwrites >= 1
        /\ bus["wa"] = <<>> /\ wk["wa"].pc = "recv") => is_sync("B")

\* ---------------------------------------------------------------------
\* A write to a tree that fails
\* ---------------------------------------------------------------------
\* Serial::serialize(..)? or self.inner.insert(..)? / self.inner.remove(..)?
\* returns the error to the caller: in insert_owned before the store is
\* written, in remove_owned before the event is sent (the key) or after it
\* (the store).  self.sync.outgoing(1) has been called by then.  hist[1]
\* notes the calls that returned an error.
Tree_err(w) ==
    /\ topo = "map"
    /\ \/ wr[w].pc = "inner"
       \/ wr[w].pc = "send" /\ wr[w].op = "remove"
    /\ wr' = [wr EXCEPT ![w].pc = "idle"]
    /\ hist' = [hist EXCEPT ![1] = Append(@, [op |-> wr[w].op, at |-> wr[w].pc])]
    /\ UNCHANGED <<topo, store, inner, SYNCS, source, received, outgoing,
                   waiting, token, bus, wk, thr, nwrites, fwd, bwd>>

NextFailingWrite ==
    \/ \E op \in {"insert", "remove"}, k \in Keys, v \in Vals :
          Tree_call("w1", op, "A", k, v)
    \/ Tree_outgoing("w1")
    \/ Tree_inner("w1")
    \/ Tree_send("w1")
    \/ Tree_err("w1")
    \/ Worker_recv("wa")
    \/ Worker_received("wa")
    \/ Worker_wake("wa")
    \/ Worker_outgoing("wa")
    \/ Worker_broadcast("wa")
    \/ Listener

SpecFailingWrite == InitTopo("map") /\ [][NextFailingWrite]_vars

\* C37: a write to the tree that fails leaves no trace: once nothing is
\* left to run the tree's outgoing counts the calls that did not fail and
\* no other, and the materialization downstream is in sync.
C37_FailedWrite ==
    (topo = "map" /\ Quiescent) =>
        /\ outgoing["A"] = nwrites - Len(hist[1])
        /\ is_sync("S")

\* ---------------------------------------------------------------------
\* clear() on a tree
\* ---------------------------------------------------------------------
\* Change::clear of Tree: sled's clear on the inner tree, and nothing else.
Tree_clear(w) ==
    /\ topo = "map"
    /\ wr[w].pc = "idle"
    /\ nwrites < WriteBound
    /\ store' = [store EXCEPT !["A"] = [k \in Keys |-> None]]
    /\ wr' = [wr EXCEPT ![w] = [pc |-> "idle", op |-> "clear", tree |-> "A",
                                key |-> 1, value |-> 1, old |-> None]]
    /\ nwrites' = nwrites + 1
    /\ UNCHANGED <<topo, inner, SYNCS, source, received, outgoing, waiting,
                   token, bus, wk, thr, hist, fwd, bwd>>

NextClear ==
    \/ \E op \in {"insert", "remove"}, k \in Keys, v \in Vals :
          Tree_call("w1", op, "A", k, v)
    \/ Tree_outgoing("w1")
    \/ Tree_inner("w1")
    \/ Tree_send("w1")
    \/ Tree_clear("w1")
    \/ Worker_recv("wa")
    \/ Worker_received("wa")
    \/ Worker_wake("wa")
    \/ Worker_outgoing("wa")
    \/ Worker_broadcast("wa")
    \/ Listener

SpecClear == InitTopo("map") /\ [][NextClear]_vars

\* C38: after a.clear(), once nothing is left to run and a wait on the
\* materialization of a.map(f) can return, the materialization has no entry.
C38_ClearPropagates ==
    (topo = "map" /\ wr["w1"].op = "clear" /\ Quiescent /\ is_sync("S"))
        => \A k \in Keys : inner[k] = None

\* ---------------------------------------------------------------------
\* Counters that wrap
\* ---------------------------------------------------------------------
\* fetch_add on an AtomicU32 wraps in every build.  The sum in incoming()
\* and Synchronizer::from is Iterator::sum over u32, which wraps in a build
\* without overflow checks and panics ("attempt to add with overflow") in a
\* build with them, the default of the dev profile.  The actions above are
\* those of the build without checks; the two below are those of the build
\* with checks.
RECURSIVE PlainSum(_)
PlainSum(srcs) ==
    IF srcs = <<>> THEN 0 ELSE outgoing[Head(srcs)] + PlainSum(Tail(srcs))
\* self.incoming() panics.
Overflows(s) == PlainSum(source[s]) >= CounterMod
\* self.is_sync() panics: in its own incoming(), or in the is_sync() of a
\* source that `all` gets to.
RECURSIVE is_sync_panics(_)
is_sync_panics(s) ==
    \/ Overflows(s)
    \/ \E i \in 1..Len(source[s]) :
          /\ is_sync_panics(source[s][i])
          /\ \A j \in 1..(i - 1) : is_sync(source[s][j])

\* The state of V = a.chain(b), S = V.store(name) after a long run: the
\* trees have counted a and b writes, every event has been processed, and
\* the last write to each key was a remove.
WrapStarts == {<<CounterMod - 1, 0>>, <<CounterMod \div 2, (CounterMod - 1) \div 2>>}
InitWrap ==
    /\ topo = "chain"
    /\ store = [x \in Trees |-> [k \in Keys |-> None]]
    /\ inner = [k \in Keys |-> None]
    /\ SYNCS = <<"A", "B", "I">>
    /\ source = [s \in Syncs |->
                    CASE s = "V" -> <<"A", "B">>
                      [] s = "S" -> <<"V">>
                      [] OTHER -> <<>>]
    /\ \E ab \in WrapStarts :
          /\ outgoing = [s \in Syncs |->
                            CASE s = "A" -> ab[1]
                              [] s = "B" -> ab[2]
                              [] s \in {"V", "S", "I"} -> (ab[1] + ab[2]) % CounterMod
                              [] OTHER -> 0]
          /\ received = [s \in Syncs |->
                            IF s \in {"V", "S"} THEN (ab[1] + ab[2]) % CounterMod
                            ELSE 0]
    /\ waiting = [s \in Syncs |-> {}]
    /\ token = [x \in Threads |-> FALSE]
    /\ bus = [r \in Workers |-> <<>>]
    /\ wk = [w \in Workers |-> IdleWorker]
    /\ thr = [x \in Threads |-> IdleThread]
    /\ wr = [w \in Writers |-> IdleWriter]
    /\ nwrites = 0
    /\ hist = [k \in Keys |-> <<>>]
    /\ fwd = [ik \in IKeys |-> None]
    /\ bwd = [k \in IdxKeys |-> None]

\* synchronizer.received(), second half, with overflow checks: the worker's
\* thread ends when is_sync() panics.
Worker_wake_checked(w) ==
    IF wk[w].pc = "wake" /\ is_sync_panics(SyncOf(w))
    THEN /\ wk' = [wk EXCEPT ![w].pc = "dead"]
         /\ UNCHANGED <<topo, store, inner, SYNCS, source, received, outgoing,
                        waiting, token, bus, thr, wr, nwrites, hist, fwd, bwd>>
    ELSE Worker_wake(w)

\* The check of wait(), with overflow checks: the caller panics.
wait_check_checked(t) ==
    IF thr[t].pc = "check" /\ is_sync_panics(thr[t].target)
    THEN /\ thr' = [thr EXCEPT ![t].pc = "panicked"]
         /\ UNCHANGED <<topo, store, inner, SYNCS, source, received, outgoing,
                        waiting, token, bus, wk, wr, nwrites, hist, fwd, bwd>>
    ELSE wait_check(t)

NextWrapChecked ==
    \/ \E op \in {"insert", "remove"}, t \in Trees, k \in Keys, v \in Vals :
          Tree_call("w1", op, t, k, v)
    \/ Tree_outgoing("w1")
    \/ Tree_inner("w1")
    \/ Tree_send("w1")
    \/ \E w \in {"wa", "wb", "ls"} : Worker_recv(w)
    \/ \E w \in {"wa", "wb", "ls"} : Worker_received(w)
    \/ \E w \in {"wa", "wb", "ls"} : Worker_wake_checked(w)
    \/ \E w \in {"wa", "wb", "ls"} : Worker_outgoing(w)
    \/ \E w \in {"wa", "wb"} : Worker_broadcast(w)
    \/ \E k \in Keys : Material_get_call("r", k)
    \/ wait_check_checked("r")
    \/ wait_push("r")
    \/ wait_park("r")
    \/ Material_get_read("r")

SpecWrapChecked == InitWrap /\ [][NextWrapChecked]_vars

\* C39: the counters wrap and nothing is lost: no thread ends in a panic
\* over a sum of counters, the stage with two sources compares equal
\* exactly when no event of its sources is unacknowledged, and once nothing
\* is left to run the materialization is in sync.
C39_WrapBenign ==
    topo = "chain" =>
        /\ \A w \in Workers : wk[w].pc # "dead"
        /\ thr["r"].pc # "panicked"
        /\ own_is_sync("V") <=> Unacknowledged = 0
        /\ Quiescent => is_sync("S")

\* ---------------------------------------------------------------------
\* Loaded: the ordered helpers
\* ---------------------------------------------------------------------
\* "loaded": a Loaded map on its own, the BTreeMap kept in `inner`.
\* thr["r"] notes the last helper called (pc), its key and what it returned,
\* an entry being <<key, value>>.
LoadedKeys == 1..NumLoadedKeys
Present(m) == {j \in DOMAIN m : m[j] # None}
Least(ks) == CHOOSE j \in ks : \A i \in ks : j <= i
Greatest(ks) == CHOOSE j \in ks : \A i \in ks : i <= j

\* map.range(..key).next_back()
Loaded_get_lt_ref(m, key) ==
    LET ks == {j \in Present(m) : j < key}
    IN  IF ks = {} THEN None ELSE Some(<<Greatest(ks), Unwrap(m[Greatest(ks)])>>)
\* map.range(key..).next()
Loaded_get_gt_ref(m, key) ==
    LET ks == {j \in Present(m) : j >= key}
    IN  IF ks = {} THEN None ELSE Some(<<Least(ks), Unwrap(m[Least(ks)])>>)
\* map.range(..).next()
Loaded_first(m) ==
    IF Present(m) = {} THEN None
    ELSE Some(<<Least(Present(m)), Unwrap(m[Least(Present(m))])>>)
\* map.range(..).next_back()
Loaded_last(m) ==
    IF Present(m) = {} THEN None
    ELSE Some(<<Greatest(Present(m)), Unwrap(m[Greatest(Present(m))])>>)

\* The persistent tree: sled's get_lt and get_gt, the entry next to the key
\* on either side and never the entry at the key.
Tree_get_lt_ref(m, key) ==
    LET ks == {j \in Present(m) : j < key}
    IN  IF ks = {} THEN None ELSE Some(<<Greatest(ks), Unwrap(m[Greatest(ks)])>>)
Tree_get_gt_ref(m, key) ==
    LET ks == {j \in Present(m) : j > key}
    IN  IF ks = {} THEN None ELSE Some(<<Least(ks), Unwrap(m[Least(ks)])>>)

InitLoaded ==
    /\ topo = "loaded"
    /\ store = [x \in Trees |-> [k \in Keys |-> None]]
    /\ inner = [k \in LoadedKeys |-> None]
    /\ SYNCS = <<>>
    /\ source = [s \in Syncs |-> <<>>]
    /\ received = [s \in Syncs |-> 0]
    /\ outgoing = [s \in Syncs |-> 0]
    /\ waiting = [s \in Syncs |-> {}]
    /\ token = [x \in Threads |-> FALSE]
    /\ bus = [r \in Workers |-> <<>>]
    /\ wk = [w \in Workers |-> IdleWorker]
    /\ thr = [x \in Threads |-> IdleThread]
    /\ wr = [w \in Writers |-> IdleWriter]
    /\ nwrites = 0
    /\ hist = [k \in Keys |-> <<>>]
    /\ fwd = [ik \in IKeys |-> None]
    /\ bwd = [k \in IdxKeys |-> None]

\* Loaded::insert_owned / remove_ref
Loaded_change(k, value) ==
    /\ topo = "loaded"
    /\ inner' = [inner EXCEPT ![k] = value]
    /\ UNCHANGED <<topo, store, SYNCS, source, received, outgoing, waiting,
                   token, bus, wk, thr, wr, nwrites, hist, fwd, bwd>>

\* A call of one of the four helpers.
Loaded_call(op, k) ==
    /\ topo = "loaded"
    /\ thr' = [thr EXCEPT !["r"].pc = op, !["r"].key = k,
                  !["r"].result =
                      CASE op = "get_lt" -> Loaded_get_lt_ref(inner, k)
                        [] op = "get_gt" -> Loaded_get_gt_ref(inner, k)
                        [] op = "first" -> Loaded_first(inner)
                        [] op = "last" -> Loaded_last(inner)]
    /\ UNCHANGED <<topo, store, inner, SYNCS, source, received, outgoing,
                   waiting, token, bus, wk, wr, nwrites, hist, fwd, bwd>>

NextLoaded ==
    \/ \E k \in LoadedKeys, v \in Vals : Loaded_change(k, Some(v))
    \/ \E k \in LoadedKeys : Loaded_change(k, None)
    \/ \E k \in LoadedKeys : Loaded_call("get_lt", k)
    \/ \E k \in LoadedKeys : Loaded_call("get_gt", k)
    \/ Loaded_call("first", 1)
    \/ Loaded_call("last", 1)

SpecLoaded == InitLoaded /\ [][NextLoaded]_vars

\* C40: each ordered helper of Loaded returns what the persistent tree
\* returns on the same contents: get_lt and get_gt the neighbouring entry
\* strictly below and strictly above the key, first and last the entries
\* with the least and the greatest key.
C40_OrderedHelpers ==
    [][(topo = "loaded" /\ thr'["r"] # thr["r"])
         => LET k == thr'["r"].key
                got == thr'["r"].result
            IN  CASE thr'["r"].pc = "get_lt" -> got = Tree_get_lt_ref(inner, k)
                  [] thr'["r"].pc = "get_gt" -> got = Tree_get_gt_ref(inner, k)
                  [] thr'["r"].pc = "first" ->
                        got = IF Present(inner) = {} THEN None
                              ELSE Some(<<Least(Present(inner)),
                                          Unwrap(inner[Least(Present(inner))])>>)
                  [] thr'["r"].pc = "last" ->
                        got = IF Present(inner) = {} THEN None
                              ELSE Some(<<Greatest(Present(inner)),
                                          Unwrap(inner[Greatest(Present(inner))])>>)
       ]_vars
=============================================================================
